---------------------------- MODULE Spec2Model ----------------------------
(***************************************************************************)
(* A model of the three engines of the file compression / indexing system: *)
(*   - the Huffman codec            (src/compression/huffman.py)           *)
(*   - the Red-Black Tree index     (src/storage/red_black_tree.py)        *)
(*   - the B-Tree index             (src/storage/btree.py)                 *)
(* Each engine has its own specification (SpecHuff, SpecRB, SpecBT) and    *)
(* SpecIndex drives both index managers with the same calls.  Variables of *)
(* an engine that a specification does not use keep their initial value.   *)
(***************************************************************************)
EXTENDS Integers, Sequences, FiniteSets, TLC

VARIABLES
    text,      \* Huffman: the bytes of the input file given to Encoder.compress
    hpc,       \* Huffman: "ready" | "compressed" | "decompressed" | "failed"
    encTree,   \* Huffman: the Encoder's HuffmanTree instance
    decTree,   \* Huffman: the Decoder's HuffmanTree instance
    file,      \* Huffman: the compressed file (pickled table + payload bytes)
    tampered,  \* Huffman: the padding byte of the file was overwritten
    out,       \* Huffman: the bytes written by Decoder.decompress
    herr,      \* Huffman: the exception that ended the last call, or "none"
    rb,        \* Red-Black Tree: the heap of Node objects and the root pointer
    bt,        \* B-Tree: the BTree object (t and the tree of BTreeNode objects)
    ghost,     \* trees: number of stored entries per key, by the calls made
    last,      \* trees: the last call made and what it returned
    removed,   \* index managers: a remove_file call was made
    created,   \* listings: number of entries created so far, by the calls made
    asked      \* B-Tree: the minimum degree the BTree was constructed with

vars == <<text, hpc, encTree, decTree, file, tampered, out, herr, rb, bt, ghost, last,
         removed, created, asked>>
huffVars == <<text, hpc, encTree, decTree, file, tampered, out, herr>>

(***************************************************************************)
(* Bounds of the model.                                                    *)
(***************************************************************************)
MaxSym == 3        \* distinct byte values in an input file
MaxLen == 5        \* length of an input file

Symbols == 1..MaxSym

RECURSIVE SeqsUpTo(_, _)
SeqsUpTo(S, n) ==
    IF n = 0 THEN {<<>>}
    ELSE LET shorter == SeqsUpTo(S, n - 1)
         IN  shorter \cup {Append(s, x) : s \in {q \in shorter : Len(q) = n - 1}, x \in S}

Texts == SeqsUpTo(Symbols, MaxLen)

(***************************************************************************)
(* Small helpers for Python lists and slices.                              *)
(***************************************************************************)
Min(a, b) == IF a < b THEN a ELSE b
Max(a, b) == IF a > b THEN a ELSE b

\* s[i:] and s[:n] on a Python list, positions counted from 0
DropFirst(s, n) == SubSeq(s, Min(n, Len(s)) + 1, Len(s))
TakeFirst(s, n) == SubSeq(s, 1, Min(n, Len(s)))
\* list.insert(i, x), list.pop(i) and s[i] = x, positions counted from 0
InsertAt(s, i, x) == TakeFirst(s, i) \o <<x>> \o DropFirst(s, i)
RemoveAt(s, i) == TakeFirst(s, i) \o DropFirst(s, i + 1)
ReplaceAt(s, i, x) == [s EXCEPT ![i + 1] = x]

RECURSIVE Zeros(_)
Zeros(n) == IF n <= 0 THEN <<>> ELSE <<0>> \o Zeros(n - 1)

(***************************************************************************)
(* Huffman codec: src/compression/huffman.py                               *)
(***************************************************************************)

\* Node(freq, symbol, left, right); symbol None is <<>>, a leaf has no kids
HNode(freq, symbol, kids) == [freq |-> freq, symbol |-> symbol, kids |-> kids]

\* a comparison that puts the greater frequency first
NodeGt(a, b) == a.freq > b.freq

\* Node.__lt__
NodeLt(a, b) == a.freq < b.freq

\* HuffmanTree.__init__
NewHuffmanTree ==
    [codes |-> <<>>, reverse_mapping |-> <<>>, root |-> <<>>, freq_dict |-> <<>>]

\* a statement's result, computed once and named: F(x) for x the value of v
Bind(v, F(_)) == CHOOSE r \in {F(x) : x \in {v}} : TRUE

\* a for loop: Body(acc, item) run for the items lo..hi of s in order, the
\* loop's variables threaded through acc
RECURSIVE ForEach(_, _, _, _, _)
ForEach(Body(_, _), acc, s, lo, hi) ==
    IF lo > hi THEN acc
    ELSE IF lo = hi THEN Body(acc, s[lo])
    ELSE Bind(ForEach(Body, acc, s, lo, (lo + hi) \div 2), LAMBDA half :
              ForEach(Body, half, s, ((lo + hi) \div 2) + 1, hi))

\* A Python dict kept as the sequence of its <<key, value>> items in
\* insertion order.
DictFind(d, k) ==
    IF \E i \in DOMAIN d : d[i][1] = k
    THEN CHOOSE i \in DOMAIN d : d[i][1] = k
    ELSE 0

DictHas(d, k) == DictFind(d, k) # 0
DictGet(d, k) == d[DictFind(d, k)][2]
DictSet(d, k, v) ==
    IF DictHas(d, k) THEN [d EXCEPT ![DictFind(d, k)] = <<k, v>>]
    ELSE Append(d, <<k, v>>)
DictKeys(d) == {d[i][1] : i \in DOMAIN d}

\* HuffmanTree._make_frequency_dict: dict(Counter(text))
MakeFrequencyDict(t) ==
    Bind(t, LAMBDA chars :
        ForEach(LAMBDA d, c : IF DictHas(d, c) THEN DictSet(d, c, DictGet(d, c) + 1)
                              ELSE DictSet(d, c, 1),
                <<>>, chars, 1, Len(chars)))

\* heapq._siftdown(heap, startpos, pos), positions counted from 0
RECURSIVE SiftDownFrom(_, _, _, _)
SiftDownFrom(heap, startpos, pos, newitem) ==
    IF pos > startpos
    THEN LET parentpos == (pos - 1) \div 2
             parent == heap[parentpos + 1]
         IN  IF NodeLt(newitem, parent)
             THEN Bind([heap EXCEPT ![pos + 1] = parent], LAMBDA moved :
                       SiftDownFrom(moved, startpos, parentpos, newitem))
             ELSE [heap EXCEPT ![pos + 1] = newitem]
    ELSE [heap EXCEPT ![pos + 1] = newitem]

SiftDown(heap, startpos, pos) ==
    Bind(heap, LAMBDA h : SiftDownFrom(h, startpos, pos, h[pos + 1]))

\* heapq._siftup(heap, pos): bubble the smaller child up to a leaf, then
\* sift the displaced item down into place
RECURSIVE SiftUpFrom(_, _, _, _)
SiftUpFrom(heap, startpos, pos, newitem) ==
    LET endpos == Len(heap)
        childpos == 2 * pos + 1
        rightpos == childpos + 1
        pick == IF rightpos < endpos /\ ~NodeLt(heap[childpos + 1], heap[rightpos + 1])
                THEN rightpos ELSE childpos
    IN  IF childpos < endpos
        THEN Bind([heap EXCEPT ![pos + 1] = heap[pick + 1]], LAMBDA moved :
                  SiftUpFrom(moved, startpos, pick, newitem))
        ELSE SiftDown([heap EXCEPT ![pos + 1] = newitem], startpos, pos)

SiftUp(heap, pos) ==
    Bind(heap, LAMBDA h : SiftUpFrom(h, pos, pos, h[pos + 1]))

\* heapq.heappush(heap, item)
HeapPush(heap, item) == SiftDown(Append(heap, item), 0, Len(heap))

\* heapq.heappop(heap): <<item, heap>>
HeapPop(heap) ==
    LET lastelt == heap[Len(heap)]
        rest == SubSeq(heap, 1, Len(heap) - 1)
    IN  IF rest # <<>>
        THEN <<rest[1], SiftUp([rest EXCEPT ![1] = lastelt], 0)>>
        ELSE <<lastelt, rest>>

\* HuffmanTree._make_heap
MakeHeap(frequency) ==
    Bind(frequency, LAMBDA items :
        ForEach(LAMBDA heap, item : HeapPush(heap, HNode(item[2], <<item[1]>>, <<>>)),
                <<>>, items, 1, Len(items)))

\* one pass of the while loop of HuffmanTree._merge_nodes
MergeStep(heap) ==
    Bind(HeapPop(heap), LAMBDA p1 :
    Bind(HeapPop(p1[2]), LAMBDA p2 :
        HeapPush(p2[2], HNode(p1[1].freq + p2[1].freq, <<>>, <<p1[1], p2[1]>>))))

\* the while loop of HuffmanTree._merge_nodes: each pass takes two nodes
\* and puts one back, so it runs len(heap) - 1 times
MergeLoop(heap) ==
    Bind(heap, LAMBDA h :
        ForEach(LAMBDA acc, pass : MergeStep(acc),
                h, [pass \in 1..(Len(h) - 1) |-> pass], 1, Len(h) - 1))

\* a merge without the special case of a single symbol
MergeSingleSkipped(heap) == heap

\* the single-symbol special case of HuffmanTree._merge_nodes
MergeSingle(heap) ==
    IF Len(heap) = 1
    THEN LET symbol == heap[1].symbol
             new_node == HNode(heap[1].freq, <<>>,
                               <<HNode(0, symbol, <<>>), HNode(0, <<>>, <<>>)>>)
         IN  HeapPop(HeapPush(heap, new_node))[2]
    ELSE heap

\* HuffmanTree._merge_nodes: heap[0] of an empty heap raises IndexError
MergeNodes(heap) ==
    Bind(MergeLoop(MergeSingle(heap)), LAMBDA merged :
        IF merged = <<>> THEN [err |-> "IndexError", root |-> <<>>]
        ELSE [err |-> "none", root |-> merged[1]])

\* _make_codes_helper with the right branch labelled "0" as well
RECURSIVE MakeCodesHelperSameBit(_, _, _)
MakeCodesHelperSameBit(tr, root, current_code) ==
    IF root.symbol # <<>>
    THEN [tr EXCEPT !.codes = DictSet(tr.codes, root.symbol[1], current_code),
                    !.reverse_mapping = DictSet(tr.reverse_mapping, current_code, root.symbol[1])]
    ELSE IF root.kids = <<>> THEN tr
    ELSE Bind(MakeCodesHelperSameBit(tr, root.kids[1], Append(current_code, 0)), LAMBDA left :
              MakeCodesHelperSameBit(left, root.kids[2], Append(current_code, 0)))

\* HuffmanTree._make_codes_helper, on the tree object tr
RECURSIVE MakeCodesHelper(_, _, _)
MakeCodesHelper(tr, root, current_code) ==
    IF root.symbol # <<>>
    THEN [tr EXCEPT !.codes = DictSet(tr.codes, root.symbol[1], current_code),
                    !.reverse_mapping = DictSet(tr.reverse_mapping, current_code, root.symbol[1])]
    ELSE IF root.kids = <<>> THEN tr
    ELSE Bind(MakeCodesHelper(tr, root.kids[1], Append(current_code, 0)), LAMBDA left :
              MakeCodesHelper(left, root.kids[2], Append(current_code, 1)))

\* HuffmanTree._make_codes
MakeCodes(tr) == Bind(tr, LAMBDA built : MakeCodesHelper(built, built.root, <<>>))

\* HuffmanTree.build_tree_from_freq: [err, tree]
BuildTreeFromFreq(tr, freq_dict) ==
    Bind([tr EXCEPT !.freq_dict = freq_dict], LAMBDA t1 :
    Bind(MergeNodes(MakeHeap(t1.freq_dict)), LAMBDA m :
        IF m.err # "none" THEN [err |-> m.err, tree |-> t1]
        ELSE [err |-> "none", tree |-> MakeCodes([t1 EXCEPT !.root = m.root])]))

\* HuffmanTree.build_tree: [err, tree]
BuildTree(tr, t) == BuildTreeFromFreq(tr, MakeFrequencyDict(t))

\* HuffmanTree._get_encoded_text
GetEncodedText(tr, t) ==
    Bind(tr.codes, LAMBDA codes :
    Bind(t, LAMBDA chars :
        ForEach(LAMBDA encoded_text, character : encoded_text \o DictGet(codes, character),
                <<>>, chars, 1, Len(chars))))

\* format(n, '08b'): the binary digits of n, zero-filled to 8 places
RECURSIVE BinDigits(_)
BinDigits(n) == IF n < 2 THEN <<n>> ELSE Append(BinDigits(n \div 2), n % 2)

RJust8(bits) == Zeros(8 - Len(bits)) \o bits
Format08b(n) == RJust8(BinDigits(n))

\* int(bits, 2)
RECURSIVE IntBase2(_)
IntBase2(bits) ==
    IF bits = <<>> THEN 0
    ELSE 2 * IntBase2(SubSeq(bits, 1, Len(bits) - 1)) + bits[Len(bits)]

\* the padding added by HuffmanTree._pad_encoded_text
ExtraPadding(encoded_text) == 8 - (Len(encoded_text) % 8)

\* HuffmanTree._pad_encoded_text
PadEncodedText(encoded_text) ==
    Bind(encoded_text, LAMBDA e :
        Format08b(ExtraPadding(e)) \o e \o Zeros(ExtraPadding(e)))

\* HuffmanTree._get_byte_array: for i in range(0, len(padded), 8)
GetByteArray(padded) ==
    Bind(padded, LAMBDA p :
        ForEach(LAMBDA b, i : Append(b, IntBase2(SubSeq(p, i + 1, Min(i + 8, Len(p))))),
                <<>>, [j \in 1..((Len(p) + 7) \div 8) |-> 8 * (j - 1)],
                1, (Len(p) + 7) \div 8))

\* the read loop of Decoder.decompress: bin(byte)[2:].rjust(8, '0')
BitString(bytes) ==
    Bind(bytes, LAMBDA data :
        ForEach(LAMBDA bit_string, byte : bit_string \o RJust8(BinDigits(byte)),
                <<>>, data, 1, Len(data)))

\* HuffmanTree._remove_padding (the stream holds at least the padding byte)
RemovePadding(padded) ==
    Bind(padded, LAMBDA p :
        LET extra_padding == IntBase2(TakeFirst(p, 8))
            rest == DropFirst(p, 8)
        IN  IF extra_padding > 0 THEN TakeFirst(rest, Len(rest) - extra_padding) ELSE rest)

\* one pass of the for loop of HuffmanTree._decode_text
DecodeBit(reverse_mapping, before, bit) ==
    LET code == Append(before.current_code, bit)
    IN  IF DictHas(reverse_mapping, code)
        THEN [decoded |-> Append(before.decoded, DictGet(reverse_mapping, code)),
              current_code |-> <<>>]
        ELSE [decoded |-> before.decoded, current_code |-> code]

\* the for loop of HuffmanTree._decode_text: [decoded, current_code]
DecodeLoop(tr, encoded_text) ==
    Bind(tr.reverse_mapping, LAMBDA reverse_mapping :
    Bind(encoded_text, LAMBDA bits :
        ForEach(LAMBDA before, bit : DecodeBit(reverse_mapping, before, bit),
                [decoded |-> <<>>, current_code |-> <<>>], bits, 1, Len(bits))))

\* HuffmanTree._decode_text
DecodeText(tr, encoded_text) == DecodeLoop(tr, encoded_text).decoded


(***************************************************************************)
(* Index trees: constructors (the operations follow the Huffman actions).  *)
(***************************************************************************)
MaxKey == 5        \* distinct filenames offered to the index trees
Keys == 1..MaxKey

\* Python's None where a number stands (a pointer, a filename)
NoneVal == -1

\* red_black_tree.py: RED = 0, BLACK = 1
RED == 0
BLACK == 1

\* the heap address of the sentinel, RedBlackTree.NIL
NIL == 0

\* RedBlackTree.__init__: the sentinel Node(None), BLACK, and root = NIL
NewRedBlackTree ==
    [root |-> NIL,
     nodes |-> (NIL :> [filename |-> NoneVal, metadata |-> <<>>, color |-> BLACK,
                        left |-> NoneVal, right |-> NoneVal, parent |-> NoneVal])]

\* BTreeNode.__init__
BTreeNode(leaf, t) ==
    [leaf |-> leaf, t |-> t, keys |-> <<>>, values |-> <<>>, children |-> <<>>]

\* a constructor that takes the minimum degree as it is given
NewBTreeAsGiven(t) == [t |-> t, root |-> BTreeNode(TRUE, t)]

\* BTree.__init__
NewBTree(t) == [t |-> Max(2, t), root |-> BTreeNode(TRUE, Max(2, t))]

NoCall == [op |-> "none", key |-> NoneVal, ret |-> FALSE]

\* the index trees as a specification of the codec leaves them
TreesIdle ==
    /\ rb = NewRedBlackTree
    /\ bt = NewBTree(2)
    /\ asked = 2
    /\ ghost = [k \in Keys |-> 0]
    /\ last = NoCall
    /\ removed = FALSE
    /\ created = 0

(***************************************************************************)
(* Huffman codec: the calls                                                *)
(***************************************************************************)
NoFile == [freq_dict |-> <<>>, bytes |-> <<>>]

InitHuff ==
    /\ text \in Texts
    /\ hpc = "ready"
    /\ encTree = NewHuffmanTree
    /\ decTree = NewHuffmanTree
    /\ file = NoFile
    /\ tampered = FALSE
    /\ out = <<>>
    /\ herr = "none"
    /\ TreesIdle

\* Encoder.compress on a fresh Encoder
Compress ==
    /\ hpc = "ready"
    /\ \E built \in {BuildTree(encTree, text)} :
       \E bytes_array \in {GetByteArray(PadEncodedText(GetEncodedText(built.tree, text)))} :
           /\ encTree' = built.tree
           /\ IF built.err # "none"
              THEN /\ hpc' = "failed"
                   /\ herr' = built.err
                   /\ file' = file
              ELSE /\ hpc' = "compressed"
                   /\ herr' = "none"
                   /\ file' = [freq_dict |-> built.tree.freq_dict, bytes |-> bytes_array]
    /\ UNCHANGED <<text, decTree, tampered, out, rb, bt, ghost, last, removed, created, asked>>

\* The compressed file is damaged before it is decoded: its padding-length
\* byte is overwritten with q.
Tamper(q) ==
    /\ hpc = "compressed"
    /\ ~tampered
    /\ q # file.bytes[1]
    /\ file' = [file EXCEPT !.bytes[1] = q]
    /\ tampered' = TRUE
    /\ UNCHANGED <<text, hpc, encTree, decTree, out, herr, rb, bt, ghost, last, removed, created, asked>>

\* what Decoder.decompress hands to _decode_text for the file
StreamAfterPadding(f) == RemovePadding(BitString(f.bytes))

\* Decoder.decompress on a fresh Decoder
Decompress ==
    /\ hpc = "compressed"
    /\ \E built \in {BuildTreeFromFreq(decTree, file.freq_dict)} :
       \E encoded_text \in {StreamAfterPadding(file)} :
           /\ decTree' = built.tree
           /\ IF built.err # "none"
              THEN /\ hpc' = "failed"
                   /\ herr' = built.err
                   /\ out' = out
              ELSE /\ hpc' = "decompressed"
                   /\ herr' = "none"
                   /\ out' = DecodeText(built.tree, encoded_text)
    /\ UNCHANGED <<text, encTree, file, tampered, rb, bt, ghost, last, removed, created, asked>>

NextHuff ==
    \/ Compress
    \/ \E q \in 0..8 : Tamper(q)
    \/ Decompress

SpecHuff == InitHuff /\ [][NextHuff]_vars


(***************************************************************************)
(* Huffman codec: properties                                               *)
(***************************************************************************)
IsPrefix(a, b) == Len(a) <= Len(b) /\ SubSeq(b, 1, Len(a)) = a

\* the bits _decode_text is left holding when the stream of the file ends
TrailingBits == DecodeLoop(decTree, StreamAfterPadding(file)).current_code

\* the bits of the payload bytes of the file, after the padding-length byte
PayloadBits(f) == DropFirst(BitString(f.bytes), 8)

\* C1: compressing any byte sequence with a fresh Encoder and decompressing
\* the result with a fresh Decoder ends without an exception and yields
\* exactly the input, the empty input included.
C1_RoundTrip ==
    (~tampered /\ hpc \in {"failed", "decompressed"}) => (herr = "none" /\ out = text)

\* The round trip for the inputs that hold at least one byte.
RoundTripNonEmpty ==
    (~tampered /\ text # <<>>) =>
        (hpc # "failed" /\ (hpc = "decompressed" => out = text))

\* C6: in the code table built for a non-empty frequency table every symbol
\* of the table has a code of 0/1 bits and no symbol's code is a prefix of
\* another symbol's code.
C6_PrefixProperty ==
    \A tr \in {encTree, decTree} :
        (tr.freq_dict # <<>> /\ tr.root # <<>>) =>
            /\ DictKeys(tr.codes) = DictKeys(tr.freq_dict)
            /\ \A i \in DOMAIN tr.codes :
                 /\ \A b \in DOMAIN tr.codes[i][2] : tr.codes[i][2][b] \in {0, 1}
                 /\ \A j \in DOMAIN tr.codes :
                      i # j => ~IsPrefix(tr.codes[i][2], tr.codes[j][2])

\* C6 witness: a decoder table for three symbols with codes of two lengths
C6_Witness ==
    /\ hpc = "decompressed"
    /\ Len(decTree.codes) = 3
    /\ \E i, j \in DOMAIN decTree.codes : Len(decTree.codes[i][2]) < Len(decTree.codes[j][2])

\* C7: when the bits left after removing the declared padding end in the
\* middle of a code, decompress ends with a corrupt-stream error.
C7_CorruptStreamError ==
    (hpc = "decompressed" /\ TrailingBits # <<>>) => herr = "CorruptStreamError"

\* C8: compressing the empty input ends without an exception, with an empty
\* frequency table, and the stream decompresses to the empty output.
C8_EmptyInput ==
    (text = <<>> /\ hpc # "ready") =>
        /\ herr = "none"
        /\ hpc # "failed"
        /\ encTree.freq_dict = <<>>
        /\ hpc = "decompressed" => out = <<>>

\* C9: the padding-length byte p is in 0..7 and the payload is the encoded
\* bitstream followed by exactly p zero bits, up to the next byte boundary.
C9_PaddingRange ==
    (hpc = "compressed" /\ ~tampered) =>
        LET p == file.bytes[1]
            encoded_text == GetEncodedText(encTree, text)
        IN  /\ p \in 0..7
            /\ PayloadBits(file) = encoded_text \o Zeros(p)
            /\ Len(encoded_text) % 8 = 0 => p = 0

\* What the encoder writes instead: p is in 1..8, a whole byte of padding
\* when the encoded length is a multiple of 8.
PaddingAsWritten ==
    (hpc = "compressed" /\ ~tampered) =>
        LET p == file.bytes[1]
            encoded_text == GetEncodedText(encTree, text)
        IN  /\ p = 8 - (Len(encoded_text) % 8)
            /\ PayloadBits(file) = encoded_text \o Zeros(p)


(***************************************************************************)
(* Red-Black Tree: src/storage/red_black_tree.py                           *)
(*                                                                         *)
(* The tree object is a heap of Node objects addressed by integers; NIL is *)
(* the address of the shared sentinel.  Every operator below takes the     *)
(* heap h = [root, nodes] and yields the heap after the method has run.    *)
(***************************************************************************)
MaxDup == 2        \* entries with the same filename held by a tree at once
MaxSizeRB == 7     \* entries held by the Red-Black Tree at once

\* FileMetadata.create with filepath=None: the record of one file (the two
\* timestamps, read from the clock, are left out)
FileMetadataCreate(size, compression_status, categories) ==
    [path |-> "", size |-> size, compression_status |-> compression_status,
     categories |-> categories]

\* the metadata the index specifications give to the file named k
MetaOf(k) == FileMetadataCreate(100 + k, FALSE, <<>>)

Left(h, x) == h.nodes[x].left
Right(h, x) == h.nodes[x].right
Parent(h, x) == h.nodes[x].parent
Color(h, x) == h.nodes[x].color
Filename(h, x) == h.nodes[x].filename

SetLeft(h, x, v) == [h EXCEPT !.nodes[x].left = v]
SetRight(h, x, v) == [h EXCEPT !.nodes[x].right = v]
SetParent(h, x, v) == [h EXCEPT !.nodes[x].parent = v]
SetColor(h, x, c) == [h EXCEPT !.nodes[x].color = c]
SetRoot(h, v) == [h EXCEPT !.root = v]

\* the address of a new Node object: the heap holds NIL at 0 and the nodes
\* of the tree at 1..n (see Canon), so n + 1 is free
Fresh(h) == Cardinality(DOMAIN h.nodes)

\* RedBlackTree._left_rotate
LeftRotate(h, x) ==
    LET y == Right(h, x)
    IN  Bind(SetRight(h, x, Left(h, y)), LAMBDA h1 :
        Bind(IF Left(h1, y) # NIL THEN SetParent(h1, Left(h1, y), x) ELSE h1, LAMBDA h2 :
        Bind(SetParent(h2, y, Parent(h2, x)), LAMBDA h3 :
        Bind(IF Parent(h3, x) = NIL THEN SetRoot(h3, y)
             ELSE IF x = Left(h3, Parent(h3, x)) THEN SetLeft(h3, Parent(h3, x), y)
             ELSE SetRight(h3, Parent(h3, x), y), LAMBDA h4 :
        SetParent(SetLeft(h4, y, x), x, y)))))

\* RedBlackTree._right_rotate
RightRotate(h, x) ==
    LET y == Left(h, x)
    IN  Bind(SetLeft(h, x, Right(h, y)), LAMBDA h1 :
        Bind(IF Right(h1, y) # NIL THEN SetParent(h1, Right(h1, y), x) ELSE h1, LAMBDA h2 :
        Bind(SetParent(h2, y, Parent(h2, x)), LAMBDA h3 :
        Bind(IF Parent(h3, x) = NIL THEN SetRoot(h3, y)
             ELSE IF x = Right(h3, Parent(h3, x)) THEN SetRight(h3, Parent(h3, x), y)
             ELSE SetLeft(h3, Parent(h3, x), y), LAMBDA h4 :
        SetParent(SetRight(h4, y, x), x, y)))))

\* the three recolourings of the uncle-is-RED case of _fix_insert
RecolorUncleRed(h, k, u) ==
    SetColor(SetColor(SetColor(h, u, BLACK), Parent(h, k), BLACK),
             Parent(h, Parent(h, k)), RED)

\* an uncle-is-BLACK case that leaves the parent RED wherever the grandparent
\* is not the root
RecolorUncleBlackParentRed(h, k) ==
    IF Parent(h, Parent(h, k)) = h.root
    THEN SetColor(SetColor(h, Parent(h, k), BLACK), Parent(h, Parent(h, k)), RED)
    ELSE SetColor(h, Parent(h, Parent(h, k)), RED)

\* the two recolourings of the uncle-is-BLACK case of _fix_insert
RecolorUncleBlack(h, k) ==
    SetColor(SetColor(h, Parent(h, k), BLACK), Parent(h, Parent(h, k)), RED)

\* an insert that leaves the tree as the descent hung the new node
FixInsertSkipped(h, k) == SetColor(h, h.root, BLACK)

\* RedBlackTree._fix_insert
RECURSIVE FixInsert(_, _)
FixInsert(h, k) ==
    IF k # h.root /\ Color(h, Parent(h, k)) = RED
    THEN IF Parent(h, k) = Right(h, Parent(h, Parent(h, k)))
         THEN LET u == Left(h, Parent(h, Parent(h, k)))
              IN  IF Color(h, u) = RED
                  THEN Bind(RecolorUncleRed(h, k, u), LAMBDA h1 :
                       FixInsert(h1, Parent(h, Parent(h, k))))
                  ELSE LET inner == k = Left(h, Parent(h, k))
                           k2 == IF inner THEN Parent(h, k) ELSE k
                       IN  Bind(IF inner THEN RightRotate(h, k2) ELSE h, LAMBDA h2 :
                           Bind(RecolorUncleBlack(h2, k2), LAMBDA h3 :
                           Bind(LeftRotate(h3, Parent(h3, Parent(h3, k2))), LAMBDA h4 :
                           FixInsert(h4, k2))))
         ELSE LET u == Right(h, Parent(h, Parent(h, k)))
              IN  IF Color(h, u) = RED
                  THEN Bind(RecolorUncleRed(h, k, u), LAMBDA h1 :
                       FixInsert(h1, Parent(h, Parent(h, k))))
                  ELSE LET inner == k = Right(h, Parent(h, k))
                           k2 == IF inner THEN Parent(h, k) ELSE k
                       IN  Bind(IF inner THEN LeftRotate(h, k2) ELSE h, LAMBDA h2 :
                           Bind(RecolorUncleBlack(h2, k2), LAMBDA h3 :
                           Bind(RightRotate(h3, Parent(h3, Parent(h3, k2))), LAMBDA h4 :
                           FixInsert(h4, k2))))
    ELSE SetColor(h, h.root, BLACK)

\* the descent of RedBlackTree.insert: the node y under which the new node
\* is hung (NIL in an empty tree)
RECURSIVE InsertDescent(_, _, _, _)
InsertDescent(h, x, y, filename) ==
    IF x # NIL
    THEN IF filename < Filename(h, x)
         THEN InsertDescent(h, Left(h, x), x, filename)
         ELSE InsertDescent(h, Right(h, x), x, filename)
    ELSE y

\* RedBlackTree.insert with the new Node at address n: the heap afterwards
RBInsertAt(h, n, filename, metadata) ==
    Bind(InsertDescent(h, h.root, NIL, filename), LAMBDA y :
    LET new_node == [filename |-> filename, metadata |-> metadata, color |-> RED,
                     left |-> NIL, right |-> NIL, parent |-> y]
    IN  Bind([h EXCEPT !.nodes = (n :> new_node) @@ h.nodes], LAMBDA h1 :
        Bind(IF y = NIL THEN SetRoot(h1, n)
             ELSE IF filename < Filename(h1, y) THEN SetLeft(h1, y, n)
             ELSE SetRight(h1, y, n), LAMBDA h2 :
        FixInsert(h2, n))))

RBInsert(h, filename, metadata) == RBInsertAt(h, Fresh(h), filename, metadata)

\* RedBlackTree._search_helper: the address of the node found, or NoneVal
RECURSIVE SearchHelper(_, _, _)
SearchHelper(h, node, filename) ==
    IF node = NIL THEN NoneVal
    ELSE IF filename = Filename(h, node) THEN node
    ELSE IF filename < Filename(h, node) THEN SearchHelper(h, Left(h, node), filename)
    ELSE SearchHelper(h, Right(h, node), filename)

\* RedBlackTree.search
RBSearch(h, filename) == SearchHelper(h, h.root, filename)

\* RedBlackTree._transplant
Transplant(h, u, v) ==
    Bind(IF Parent(h, u) = NIL THEN SetRoot(h, v)
         ELSE IF u = Left(h, Parent(h, u)) THEN SetLeft(h, Parent(h, u), v)
         ELSE SetRight(h, Parent(h, u), v), LAMBDA h1 :
    SetParent(h1, v, Parent(h1, u)))

\* RedBlackTree._minimum
RECURSIVE Minimum(_, _)
Minimum(h, x) == IF Left(h, x) # NIL THEN Minimum(h, Left(h, x)) ELSE x

\* the end of a pass of _fix_delete whose sibling w has a RED child, x a
\* left child: <<heap, x>>
FixDeleteLeftFar(h, x, w) ==
    Bind(SetColor(h, w, Color(h, Parent(h, x))), LAMBDA h3 :
    Bind(SetColor(h3, Parent(h3, x), BLACK), LAMBDA h4 :
    Bind(SetColor(h4, Right(h4, w), BLACK), LAMBDA h5 :
    Bind(LeftRotate(h5, Parent(h5, x)), LAMBDA h6 :
    <<h6, h6.root>>))))

\* one pass of the loop of _fix_delete with x a left child: <<heap, x>>
FixDeleteLeft(h, x) ==
    LET w0 == Right(h, Parent(h, x))
        red == Color(h, w0) = RED
    IN  Bind(IF red
             THEN LeftRotate(SetColor(SetColor(h, w0, BLACK), Parent(h, x), RED),
                             Parent(h, x))
             ELSE h, LAMBDA h1 :
        LET w1 == IF red THEN Right(h1, Parent(h1, x)) ELSE w0
        IN  IF Color(h1, Left(h1, w1)) = BLACK /\ Color(h1, Right(h1, w1)) = BLACK
            THEN <<SetColor(h1, w1, RED), Parent(h1, x)>>
            ELSE IF Color(h1, Right(h1, w1)) = BLACK
            THEN Bind(RightRotate(SetColor(SetColor(h1, Left(h1, w1), BLACK), w1, RED),
                                  w1), LAMBDA h2 :
                 FixDeleteLeftFar(h2, x, Right(h2, Parent(h2, x))))
            ELSE FixDeleteLeftFar(h1, x, w1))

\* the same end of a pass with x a right child
FixDeleteRightFar(h, x, w) ==
    Bind(SetColor(h, w, Color(h, Parent(h, x))), LAMBDA h3 :
    Bind(SetColor(h3, Parent(h3, x), BLACK), LAMBDA h4 :
    Bind(SetColor(h4, Left(h4, w), BLACK), LAMBDA h5 :
    Bind(RightRotate(h5, Parent(h5, x)), LAMBDA h6 :
    <<h6, h6.root>>))))

\* one pass of the loop of _fix_delete with x a right child: <<heap, x>>
FixDeleteRight(h, x) ==
    LET w0 == Left(h, Parent(h, x))
        red == Color(h, w0) = RED
    IN  Bind(IF red
             THEN RightRotate(SetColor(SetColor(h, w0, BLACK), Parent(h, x), RED),
                              Parent(h, x))
             ELSE h, LAMBDA h1 :
        LET w1 == IF red THEN Left(h1, Parent(h1, x)) ELSE w0
        IN  IF Color(h1, Right(h1, w1)) = BLACK /\ Color(h1, Left(h1, w1)) = BLACK
            THEN <<SetColor(h1, w1, RED), Parent(h1, x)>>
            ELSE IF Color(h1, Left(h1, w1)) = BLACK
            THEN Bind(LeftRotate(SetColor(SetColor(h1, Right(h1, w1), BLACK), w1, RED),
                                 w1), LAMBDA h2 :
                 FixDeleteRightFar(h2, x, Left(h2, Parent(h2, x))))
            ELSE FixDeleteRightFar(h1, x, w1))

\* RedBlackTree._fix_delete
RECURSIVE FixDelete(_, _)
FixDelete(h, x) ==
    IF x # h.root /\ Color(h, x) = BLACK
    THEN Bind(IF x = Left(h, Parent(h, x)) THEN FixDeleteLeft(h, x)
              ELSE FixDeleteRight(h, x), LAMBDA step :
         FixDelete(step[1], step[2]))
    ELSE SetColor(h, x, BLACK)

\* the test of _delete_node that decides whether _fix_delete runs
RemovedBlackNever(y_original_color) == FALSE
RemovedBlack(y_original_color) == y_original_color = BLACK

\* a relinking that forgets y.left = z.left, so that the left subtree of z
\* is lost with z
UnlinkInnerDropsLeft(h, z, y) ==
    LET x == Right(h, y)
    IN  Bind(IF Parent(h, y) = z
             THEN SetParent(h, x, y)
             ELSE Bind(Transplant(h, y, Right(h, y)), LAMBDA a :
                  Bind(SetRight(a, y, Right(a, z)), LAMBDA b :
                  SetParent(b, Right(b, y), y))), LAMBDA h1 :
        Bind(Transplant(h1, z, y), LAMBDA h2 :
        SetColor(h2, y, Color(h2, z))))

\* the relinking of RedBlackTree._delete_node with both children of z
\* present, y the minimum of its right subtree: the heap afterwards
UnlinkInner(h, z, y) ==
    LET x == Right(h, y)
    IN  Bind(IF Parent(h, y) = z
             THEN SetParent(h, x, y)
             ELSE Bind(Transplant(h, y, Right(h, y)), LAMBDA a :
                  Bind(SetRight(a, y, Right(a, z)), LAMBDA b :
                  SetParent(b, Right(b, y), y))), LAMBDA h1 :
        Bind(Transplant(h1, z, y), LAMBDA h2 :
        Bind(SetLeft(h2, y, Left(h2, z)), LAMBDA h3 :
        Bind(SetParent(h3, Left(h3, y), y), LAMBDA h4 :
        SetColor(h4, y, Color(h4, z))))))

\* the relinking of RedBlackTree._delete_node: [h, x, y_original_color]
Unlink(h, z) ==
    IF Left(h, z) = NIL
    THEN [h |-> Transplant(h, z, Right(h, z)), x |-> Right(h, z), yoc |-> Color(h, z)]
    ELSE IF Right(h, z) = NIL
    THEN [h |-> Transplant(h, z, Left(h, z)), x |-> Left(h, z), yoc |-> Color(h, z)]
    ELSE Bind(Minimum(h, Right(h, z)), LAMBDA y :
         [h |-> UnlinkInner(h, z, y), x |-> Right(h, y), yoc |-> Color(h, y)])

\* RedBlackTree._delete_node
DeleteNode(h, z) ==
    Bind(Unlink(h, z), LAMBDA u :
    IF RemovedBlack(u.yoc) THEN FixDelete(u.h, u.x) ELSE u.h)

\* RedBlackTree.delete: [h, ret]
RBDelete(h, filename) ==
    Bind(RBSearch(h, filename), LAMBDA node :
    IF node # NoneVal THEN [h |-> DeleteNode(h, node), ret |-> TRUE]
    ELSE [h |-> h, ret |-> FALSE])

\* RedBlackTree._inorder_traversal: the list of [filename, metadata]
RECURSIVE RBInorder(_, _)
RBInorder(h, node) ==
    IF node # NIL
    THEN RBInorder(h, Left(h, node))
         \o <<[filename |-> Filename(h, node), metadata |-> h.nodes[node].metadata]>>
         \o RBInorder(h, Right(h, node))
    ELSE <<>>

\* RedBlackTree.get_all_files
GetAllFiles(h) == RBInorder(h, h.root)

\* RedBlackTree.__len__
RECURSIVE CountNodes(_, _)
CountNodes(h, node) ==
    IF node # NIL THEN 1 + CountNodes(h, Left(h, node)) + CountNodes(h, Right(h, node))
    ELSE 0
RBLen(h) == CountNodes(h, h.root)

\* the addresses of the nodes of the tree, in order
RECURSIVE InorderAddresses(_, _)
InorderAddresses(h, node) ==
    IF node # NIL
    THEN InorderAddresses(h, Left(h, node)) \o <<node>> \o InorderAddresses(h, Right(h, node))
    ELSE <<>>

\* Node objects are told apart by identity only, so a heap is kept up to the
\* naming of its addresses: between two calls the i-th node in order lives at
\* address i and the objects the tree no longer references are gone.  The
\* parent field of NIL, which _transplant and _delete_node set for the
\* _fix_delete that follows, is forgotten between calls: a read of the
\* forgotten value would be a read of nodes[NoneVal], which stops TLC.
Canon(heap) ==
    Bind(heap, LAMBDA h :
    Bind(InorderAddresses(h, h.root), LAMBDA order :
    LET ren(a) == IF a = NIL THEN NIL ELSE CHOOSE i \in DOMAIN order : order[i] = a
        moved(i) == [h.nodes[order[i]] EXCEPT !.left = ren(@), !.right = ren(@),
                                              !.parent = ren(@)]
    IN  [root |-> ren(h.root),
         nodes |-> [i \in {NIL} \cup DOMAIN order |->
                       IF i = NIL THEN [h.nodes[NIL] EXCEPT !.parent = NoneVal]
                       ELSE moved(i)]]))

(***************************************************************************)
(* Red-Black Tree: the calls                                               *)
(***************************************************************************)
Call(op, key, ret) == [op |-> op, key |-> key, ret |-> ret]

HuffIdle ==
    /\ text = <<>>
    /\ hpc = "ready"
    /\ encTree = NewHuffmanTree
    /\ decTree = NewHuffmanTree
    /\ file = NoFile
    /\ tampered = FALSE
    /\ out = <<>>
    /\ herr = "none"

InitRB ==
    /\ HuffIdle
    /\ rb = NewRedBlackTree
    /\ bt = NewBTree(2)
    /\ asked = 2
    /\ ghost = [k \in Keys |-> 0]
    /\ last = NoCall
    /\ removed = FALSE
    /\ created = 0

\* RedBlackTree.insert(k, size=...), returning the new node
RBInsertCall(k) ==
    /\ ghost[k] < MaxDup
    /\ RBLen(rb) < MaxSizeRB
    /\ rb' = Canon(RBInsert(rb, k, MetaOf(k)))
    /\ ghost' = [ghost EXCEPT ![k] = @ + 1]
    /\ last' = Call("insert", k, TRUE)
    /\ UNCHANGED <<huffVars, bt, removed, created, asked>>

\* RedBlackTree.delete(k), of a filename that is stored or not
RBDeleteCall(k) ==
    /\ \E d \in {RBDelete(rb, k)} :
           /\ rb' = Canon(d.h)
           /\ last' = Call("delete", k, d.ret)
    /\ ghost' = [ghost EXCEPT ![k] = Max(0, @ - 1)]
    /\ UNCHANGED <<huffVars, bt, removed, created, asked>>

NextRB ==
    \/ \E k \in Keys : RBInsertCall(k)
    \/ \E k \in Keys : RBDeleteCall(k)

SpecRB == InitRB /\ [][NextRB]_vars

(***************************************************************************)
(* Red-Black Tree: properties                                              *)
(***************************************************************************)
\* the addresses reachable from node
RECURSIVE Reach(_, _)
Reach(h, node) ==
    IF node = NIL THEN {}
    ELSE {node} \cup Reach(h, Left(h, node)) \cup Reach(h, Right(h, node))

\* the number of BLACK nodes on every path from node down to NIL, NIL
\* counted; -1 when two paths differ
RECURSIVE BlackHeight(_, _)
BlackHeight(h, node) ==
    IF node = NIL THEN 1
    ELSE LET l == BlackHeight(h, Left(h, node))
             r == BlackHeight(h, Right(h, node))
         IN  IF l = -1 \/ r = -1 \/ l # r THEN -1
             ELSE l + (IF Color(h, node) = BLACK THEN 1 ELSE 0)

NoRedRed(h) ==
    \A n \in Reach(h, h.root) :
        Color(h, n) = RED => (Color(h, Left(h, n)) = BLACK /\ Color(h, Right(h, n)) = BLACK)

\* the tree is the heap: child and parent pointers agree, filenames are in
\* search order, and exactly the reachable nodes and NIL are in the heap
RBWellFormed ==
    /\ DOMAIN rb.nodes = Reach(rb, rb.root) \cup {NIL}
    /\ rb.root # NIL => Parent(rb, rb.root) = NIL
    /\ \A n \in Reach(rb, rb.root) :
         /\ Left(rb, n) # NIL => (Parent(rb, Left(rb, n)) = n
                                  /\ Filename(rb, Left(rb, n)) <= Filename(rb, n))
         /\ Right(rb, n) # NIL => (Parent(rb, Right(rb, n)) = n
                                   /\ Filename(rb, Right(rb, n)) >= Filename(rb, n))
    /\ \A k \in Keys :
         Cardinality({n \in Reach(rb, rb.root) : Filename(rb, n) = k}) = ghost[k]

\* C2: after any sequence of insert and delete calls the root is BLACK, the
\* NIL sentinel is BLACK, no RED node has a RED child, and every path from
\* the root to NIL passes through the same number of BLACK nodes.
C2_RedBlackInvariants ==
    /\ Color(rb, rb.root) = BLACK
    /\ Color(rb, NIL) = BLACK
    /\ NoRedRed(rb)
    /\ BlackHeight(rb, rb.root) # -1

\* C2 witness: a delete of a stored filename has just run on a tree that
\* still holds five entries, RED and BLACK ones
C2_Witness ==
    /\ last.op = "delete" /\ last.ret
    /\ RBLen(rb) >= 5
    /\ \E n \in Reach(rb, rb.root) : Color(rb, n) = RED


(***************************************************************************)
(* B-Tree: src/storage/btree.py                                            *)
(* A BTreeNode is a record that holds its children, so a tree is a value   *)
(* and a method that changes a node in place yields the changed node.      *)
(***************************************************************************)
MaxT == 3          \* minimum degree asked of BTree(t), from 1
MaxSizeBT == 10    \* entries held by the B-Tree at once

\* the value stored with the v-th version of key k
MetaOfVersion(k, v) == FileMetadataCreate(100 * v + k, FALSE, <<>>)

\* s[i] on a Python list, positions counted from 0
At(s, i) == s[i + 1]

\* a test for fullness that lets a node take one key more
IsFullLate(node) == Len(node.keys) = 2 * node.t

\* BTreeNode.is_full
IsFull(node) == Len(node.keys) = 2 * node.t - 1

\* i = 0; while i < len(keys) and key > keys[i]: i += 1
RECURSIVE ScanUp(_, _, _)
ScanUp(keys, key, i) ==
    IF i < Len(keys) /\ key > At(keys, i) THEN ScanUp(keys, key, i + 1) ELSE i

\* while i >= 0 and key < keys[i]: i -= 1
RECURSIVE ScanDown(_, _, _)
ScanDown(keys, key, i) ==
    IF i >= 0 /\ key < At(keys, i) THEN ScanDown(keys, key, i - 1) ELSE i

\* None, where the other results are records
None == [none |-> TRUE]

\* BTree._search: (node, index), or (None, -1)
RECURSIVE Search(_, _)

\* a search that reports the leaf it ended in when the key is not there
SearchLeafHit(node, key) ==
    LET i == ScanUp(node.keys, key, 0)
    IN  IF i < Len(node.keys) /\ key = At(node.keys, i) THEN [node |-> node, index |-> i]
        ELSE IF node.leaf THEN [node |-> node, index |-> i]
        ELSE Search(At(node.children, i), key)

Search(node, key) ==
    LET i == ScanUp(node.keys, key, 0)
    IN  IF i < Len(node.keys) /\ key = At(node.keys, i) THEN [node |-> node, index |-> i]
        ELSE IF node.leaf THEN [node |-> None, index |-> -1]
        ELSE Search(At(node.children, i), key)

\* BTree.search
BTSearch(tree, key) == Search(tree.root, key)

\* a split that moves the key in the middle up with the value next to it
SplitChildWrongValue(t, parent, index) ==
    LET child == At(parent.children, index)
        new_node == [BTreeNode(child.leaf, t) EXCEPT
                        !.keys = DropFirst(child.keys, t),
                        !.values = DropFirst(child.values, t),
                        !.children = IF ~child.leaf THEN DropFirst(child.children, t) ELSE @]
        cut == [child EXCEPT
                   !.keys = TakeFirst(@, t - 1),
                   !.values = TakeFirst(@, t - 1),
                   !.children = IF ~child.leaf THEN TakeFirst(@, t) ELSE @]
    IN  IF Len(child.keys) < t THEN parent
        ELSE [parent EXCEPT
                 !.children = InsertAt(ReplaceAt(@, index, cut), index + 1, new_node),
                 !.keys = InsertAt(@, index, At(child.keys, t - 1)),
                 !.values = InsertAt(@, index, At(child.values, t))]

\* BTree._split_child: the parent after the split of children[index]
SplitChild(t, parent, index) ==
    LET child == At(parent.children, index)
        new_node == [BTreeNode(child.leaf, t) EXCEPT
                        !.keys = DropFirst(child.keys, t),
                        !.values = DropFirst(child.values, t),
                        !.children = IF ~child.leaf THEN DropFirst(child.children, t) ELSE @]
        middle_key == At(child.keys, t - 1)
        middle_value == At(child.values, t - 1)
        cut == [child EXCEPT
                   !.keys = TakeFirst(@, t - 1),
                   !.values = TakeFirst(@, t - 1),
                   !.children = IF ~child.leaf THEN TakeFirst(@, t) ELSE @]
    IN  IF Len(child.keys) < t THEN parent
        ELSE [parent EXCEPT
                 !.children = InsertAt(ReplaceAt(@, index, cut), index + 1, new_node),
                 !.keys = InsertAt(@, index, middle_key),
                 !.values = InsertAt(@, index, middle_value)]

RECURSIVE InsertNonFull(_, _, _, _)

\* an insertion that overwrites the value of a key it meets in a leaf
InsertNonFullOverwrite(t, node, key, value) ==
    LET i == ScanDown(node.keys, key, Len(node.keys) - 1)
    IN  IF node.leaf
        THEN IF i >= 0 /\ At(node.keys, i) = key
             THEN [node EXCEPT !.values = ReplaceAt(@, i, value)]
             ELSE [node EXCEPT !.keys = InsertAt(@, i + 1, key),
                               !.values = InsertAt(@, i + 1, value)]
        ELSE LET full == IsFull(At(node.children, i + 1))
                 split == IF full THEN SplitChild(t, node, i + 1) ELSE node
                 j == IF full /\ key > At(split.keys, i + 1) THEN i + 2 ELSE i + 1
             IN  [split EXCEPT !.children =
                     ReplaceAt(@, j, InsertNonFull(t, At(split.children, j), key, value))]

\* BTree._insert_non_full: the node after the insertion
InsertNonFull(t, node, key, value) ==
    LET i == ScanDown(node.keys, key, Len(node.keys) - 1)
    IN  IF node.leaf
        THEN [node EXCEPT !.keys = InsertAt(@, i + 1, key),
                          !.values = InsertAt(@, i + 1, value)]
        ELSE LET full == IsFull(At(node.children, i + 1))
                 split == IF full THEN SplitChild(t, node, i + 1) ELSE node
                 j == IF full /\ key > At(split.keys, i + 1) THEN i + 2 ELSE i + 1
             IN  [split EXCEPT !.children =
                     ReplaceAt(@, j, InsertNonFull(t, At(split.children, j), key, value))]

\* BTree.insert
BTInsert(tree, key, value) ==
    LET root == tree.root
        new_root == [BTreeNode(FALSE, tree.t) EXCEPT !.children = <<root>>]
        top == IF IsFull(root) THEN SplitChild(tree.t, new_root, 0) ELSE root
    IN  [tree EXCEPT !.root = InsertNonFull(tree.t, top, key, value)]

\* BTree._get_predecessor: (leaf, index) of the rightmost key below children[index]
RECURSIVE Rightmost(_)
Rightmost(current) ==
    IF ~current.leaf THEN Rightmost(At(current.children, Len(current.children) - 1))
    ELSE current

GetPredecessor(node, index) ==
    LET current == Rightmost(At(node.children, index))
    IN  [node |-> current, index |-> Len(current.keys) - 1]

\* BTree._get_successor: (leaf, 0) of the leftmost key below children[index + 1]
RECURSIVE Leftmost(_)
Leftmost(current) ==
    IF ~current.leaf THEN Leftmost(At(current.children, 0)) ELSE current

GetSuccessor(node, index) ==
    [node |-> Leftmost(At(node.children, index + 1)), index |-> 0]


\* a borrow that moves the key of the left sibling up into the parent and
\* leaves the value of the parent as it was
BorrowFromLeftKeepsValue(node, index) ==
    LET child == At(node.children, index)
        left_sibling == At(node.children, index - 1)
        n == Len(left_sibling.keys)
        c == Len(left_sibling.children)
        taker == [child EXCEPT
                     !.keys = InsertAt(@, 0, At(node.keys, index - 1)),
                     !.values = InsertAt(@, 0, At(node.values, index - 1)),
                     !.children = IF ~child.leaf
                                  THEN InsertAt(@, 0, At(left_sibling.children, c - 1))
                                  ELSE @]
        giver == [left_sibling EXCEPT
                     !.keys = TakeFirst(@, n - 1),
                     !.values = TakeFirst(@, n - 1),
                     !.children = IF ~child.leaf THEN TakeFirst(@, c - 1) ELSE @]
    IN  [node EXCEPT
            !.keys = ReplaceAt(@, index - 1, At(left_sibling.keys, n - 1)),
            !.children = ReplaceAt(ReplaceAt(@, index, taker), index - 1, giver)]

\* BTree._borrow_from_left: the parent after children[index] took a key
BorrowFromLeft(node, index) ==
    LET child == At(node.children, index)
        left_sibling == At(node.children, index - 1)
        n == Len(left_sibling.keys)
        c == Len(left_sibling.children)
        taker == [child EXCEPT
                     !.keys = InsertAt(@, 0, At(node.keys, index - 1)),
                     !.values = InsertAt(@, 0, At(node.values, index - 1)),
                     !.children = IF ~child.leaf
                                  THEN InsertAt(@, 0, At(left_sibling.children, c - 1))
                                  ELSE @]
        giver == [left_sibling EXCEPT
                     !.keys = TakeFirst(@, n - 1),
                     !.values = TakeFirst(@, n - 1),
                     !.children = IF ~child.leaf THEN TakeFirst(@, c - 1) ELSE @]
    IN  [node EXCEPT
            !.keys = ReplaceAt(@, index - 1, At(left_sibling.keys, n - 1)),
            !.values = ReplaceAt(@, index - 1, At(left_sibling.values, n - 1)),
            !.children = ReplaceAt(ReplaceAt(@, index, taker), index - 1, giver)]

\* a borrow from the right that hands the sibling's first key to the child
\* without passing it through the parent
BorrowFromRightPastParent(node, index) ==
    LET child == At(node.children, index)
        right_sibling == At(node.children, index + 1)
        taker == [child EXCEPT
                     !.keys = Append(@, At(right_sibling.keys, 0)),
                     !.values = Append(@, At(right_sibling.values, 0)),
                     !.children = IF ~right_sibling.leaf
                                  THEN Append(@, At(right_sibling.children, 0))
                                  ELSE @]
        giver == [right_sibling EXCEPT
                     !.keys = RemoveAt(@, 0),
                     !.values = RemoveAt(@, 0),
                     !.children = IF ~right_sibling.leaf THEN RemoveAt(@, 0) ELSE @]
    IN  [node EXCEPT
            !.children = ReplaceAt(ReplaceAt(@, index, taker), index + 1, giver)]

\* BTree._borrow_from_right
BorrowFromRight(node, index) ==
    LET child == At(node.children, index)
        right_sibling == At(node.children, index + 1)
        taker == [child EXCEPT
                     !.keys = Append(@, At(node.keys, index)),
                     !.values = Append(@, At(node.values, index)),
                     !.children = IF ~right_sibling.leaf
                                  THEN Append(@, At(right_sibling.children, 0))
                                  ELSE @]
        giver == [right_sibling EXCEPT
                     !.keys = RemoveAt(@, 0),
                     !.values = RemoveAt(@, 0),
                     !.children = IF ~right_sibling.leaf THEN RemoveAt(@, 0) ELSE @]
    IN  [node EXCEPT
            !.keys = ReplaceAt(@, index, At(right_sibling.keys, 0)),
            !.values = ReplaceAt(@, index, At(right_sibling.values, 0)),
            !.children = ReplaceAt(ReplaceAt(@, index, taker), index + 1, giver)]

\* BTree._merge_nodes: the parent after children[index + 1] and keys[index]
\* went into children[index]
BTreeMergeNodes(node, index) ==
    LET left_child == At(node.children, index)
        right_child == At(node.children, index + 1)
        merged == [left_child EXCEPT
                      !.keys = Append(@, At(node.keys, index)) \o right_child.keys,
                      !.values = Append(@, At(node.values, index)) \o right_child.values,
                      !.children = IF ~left_child.leaf THEN @ \o right_child.children
                                   ELSE @]
    IN  [node EXCEPT
            !.keys = RemoveAt(@, index),
            !.values = RemoveAt(@, index),
            !.children = RemoveAt(ReplaceAt(@, index, merged), index + 1)]

RECURSIVE Delete(_, _, _)
RECURSIVE DeleteInternalNode(_, _, _, _)
RECURSIVE EnsureChildHasEnoughKeysAndDelete(_, _, _, _)

\* the node after _delete ran on its child children[index], and what it
\* returned; entered collects the nodes below the root on which _delete was
\* entered, each as it was at its call
DeleteInChild(t, node, index, key) ==
    LET d == Delete(t, At(node.children, index), key)
    IN  [node |-> [node EXCEPT !.children = ReplaceAt(@, index, d.node)],
         deleted |-> d.deleted,
         entered |-> {At(node.children, index)} \cup d.entered]

\* BTree._delete: [node, deleted, entered], the node after the call, the
\* result, and the nodes the recursive calls were entered on
Delete(t, node, key) ==
    LET i == ScanUp(node.keys, key, 0)
    IN  IF i < Len(node.keys) /\ At(node.keys, i) = key
        THEN IF node.leaf
             THEN [node |-> [node EXCEPT !.keys = RemoveAt(@, i), !.values = RemoveAt(@, i)],
                   deleted |-> TRUE, entered |-> {}]
             ELSE DeleteInternalNode(t, node, key, i)
        ELSE IF node.leaf
             THEN [node |-> node, deleted |-> FALSE, entered |-> {}]
             ELSE EnsureChildHasEnoughKeysAndDelete(t, node, key, i)

\* BTree._delete_internal_node
DeleteInternalNode(t, node, key, index) ==
    IF Len(At(node.children, index).keys) >= t
    THEN LET p == GetPredecessor(node, index)
             replaced == [node EXCEPT
                             !.keys = ReplaceAt(@, index, At(p.node.keys, p.index)),
                             !.values = ReplaceAt(@, index, At(p.node.values, p.index))]
         IN  DeleteInChild(t, replaced, index, At(replaced.keys, index))
    ELSE IF Len(At(node.children, index + 1).keys) >= t
    THEN LET q == GetSuccessor(node, index)
             replaced == [node EXCEPT
                             !.keys = ReplaceAt(@, index, At(q.node.keys, q.index)),
                             !.values = ReplaceAt(@, index, At(q.node.values, q.index))]
         IN  DeleteInChild(t, replaced, index + 1, At(replaced.keys, index))
    ELSE DeleteInChild(t, BTreeMergeNodes(node, index), index, key)

\* a descent that neither borrows nor merges before it enters children[index]
EnsureChildSkipped(t, node, key, index) == DeleteInChild(t, node, index, key)

\* BTree._ensure_child_has_enough_keys_and_delete
EnsureChildHasEnoughKeysAndDelete(t, node, key, index) ==
    LET last_child == Len(node.children) - 1
    IN  IF Len(At(node.children, index).keys) = t - 1
        THEN IF index > 0 /\ Len(At(node.children, index - 1).keys) >= t
             THEN DeleteInChild(t, BorrowFromLeft(node, index), index, key)
             ELSE IF index < last_child /\ Len(At(node.children, index + 1).keys) >= t
             THEN DeleteInChild(t, BorrowFromRight(node, index), index, key)
             ELSE IF index = last_child
             THEN DeleteInChild(t, BTreeMergeNodes(node, index - 1), index - 1, key)
             ELSE DeleteInChild(t, BTreeMergeNodes(node, index), index, key)
        ELSE DeleteInChild(t, node, index, key)

\* BTree.delete: [tree, ret], the tree after the call and the result
BTDelete(tree, key) ==
    IF Len(tree.root.keys) = 0 THEN [tree |-> tree, ret |-> FALSE]
    ELSE LET d == Delete(tree.t, tree.root, key)
             root == IF Len(d.node.keys) = 0 /\ ~d.node.leaf
                     THEN At(d.node.children, 0) ELSE d.node
         IN  [tree |-> [tree EXCEPT !.root = root], ret |-> d.deleted]

RECURSIVE RangeSearchNode(_, _, _)
RECURSIVE RangeSearchKeys(_, _, _, _)

\* BTree._range_search: the (key, value) pairs it appends to result
RangeSearchNode(node, start_key, end_key) ==
    RangeSearchKeys(node, start_key, end_key, ScanUp(node.keys, start_key, 0))

\* a second loop that stops before end_key instead of after it
RangeSearchKeysExclusive(node, start_key, end_key, i) ==
    IF i < Len(node.keys) /\ At(node.keys, i) < end_key
    THEN (IF ~node.leaf THEN RangeSearchNode(At(node.children, i), start_key, end_key)
          ELSE <<>>)
         \o << <<At(node.keys, i), At(node.values, i)>> >>
         \o RangeSearchKeys(node, start_key, end_key, i + 1)
    ELSE IF ~node.leaf /\ i < Len(node.children)
         THEN RangeSearchNode(At(node.children, i), start_key, end_key)
         ELSE <<>>

\* its second loop, from position i, and the visit of the last child
RangeSearchKeys(node, start_key, end_key, i) ==
    IF i < Len(node.keys) /\ At(node.keys, i) <= end_key
    THEN (IF ~node.leaf THEN RangeSearchNode(At(node.children, i), start_key, end_key)
          ELSE <<>>)
         \o << <<At(node.keys, i), At(node.values, i)>> >>
         \o RangeSearchKeys(node, start_key, end_key, i + 1)
    ELSE IF ~node.leaf /\ i < Len(node.children)
         THEN RangeSearchNode(At(node.children, i), start_key, end_key)
         ELSE <<>>

\* BTree.range_search
RangeSearch(tree, start_key, end_key) == RangeSearchNode(tree.root, start_key, end_key)

RECURSIVE BTInorderTraversal(_)
RECURSIVE BTInorderKeys(_, _)

\* BTree._inorder_traversal: the (key, value) pairs it appends to result
BTInorderTraversal(node) == BTInorderKeys(node, 0)

\* its loop over range(len(node.keys)), from i, and the visit of children[-1]
BTInorderKeys(node, i) ==
    IF i < Len(node.keys)
    THEN (IF ~node.leaf THEN BTInorderTraversal(At(node.children, i)) ELSE <<>>)
         \o << <<At(node.keys, i), At(node.values, i)>> >>
         \o BTInorderKeys(node, i + 1)
    ELSE IF ~node.leaf /\ Len(node.children) > 0
         THEN BTInorderTraversal(At(node.children, Len(node.children) - 1))
         ELSE <<>>

\* BTree.get_all
GetAll(tree) == BTInorderTraversal(tree.root)


(***************************************************************************)
(* B-Tree: calls on a BTree                                                *)
(***************************************************************************)
InitBT ==
    /\ HuffIdle
    /\ rb = NewRedBlackTree
    /\ \E t \in 1..MaxT : bt = NewBTree(t) /\ asked = t
    /\ ghost = [k \in Keys |-> 0]
    /\ last = NoCall
    /\ removed = FALSE
    /\ created = 0

\* BTree.insert(k, value)
BTInsertCall(k) ==
    /\ ghost[k] < MaxDup
    /\ Len(GetAll(bt)) < MaxSizeBT
    /\ bt' = BTInsert(bt, k, MetaOf(k))
    /\ ghost' = [ghost EXCEPT ![k] = @ + 1]
    /\ last' = Call("insert", k, TRUE)
    /\ UNCHANGED <<huffVars, rb, removed, created, asked>>

\* BTree.delete(k), of a key that is stored or not
BTDeleteCall(k) ==
    /\ \E d \in {BTDelete(bt, k)} :
           /\ bt' = d.tree
           /\ last' = Call("delete", k, d.ret)
    /\ ghost' = [ghost EXCEPT ![k] = Max(0, @ - 1)]
    /\ UNCHANGED <<huffVars, rb, removed, created, asked>>

NextBT ==
    \/ \E k \in Keys : BTInsertCall(k)
    \/ \E k \in Keys : BTDeleteCall(k)

SpecBT == InitBT /\ [][NextBT]_vars

(***************************************************************************)
(* B-Tree: properties                                                      *)
(***************************************************************************)
\* the depths of the leaves below node, node being at depth d
RECURSIVE LeafDepths(_, _)
LeafDepths(node, d) ==
    IF node.leaf THEN {d}
    ELSE UNION {LeafDepths(node.children[i], d + 1) : i \in DOMAIN node.children}

\* the nodes below node, node included
RECURSIVE Nodes(_)
Nodes(node) ==
    {node} \cup UNION {Nodes(node.children[i]) : i \in DOMAIN node.children}

Height(tree) == CHOOSE d \in LeafDepths(tree.root, 1) : TRUE

\* every node is a node of this tree: same t, a value per key, and keys in
\* search order over the whole listing
BTWellFormed ==
    /\ \A n \in Nodes(bt.root) :
         /\ n.t = bt.t
         /\ Len(n.values) = Len(n.keys)
         /\ n.leaf => n.children = <<>>
    /\ LET all == GetAll(bt)
       IN  /\ \A i \in 1..(Len(all) - 1) : all[i][1] <= all[i + 1][1]
           /\ \A k \in Keys : Cardinality({i \in DOMAIN all : all[i][1] = k}) = ghost[k]

\* C3: after any sequence of insert and delete calls on a BTree of minimum
\* degree t, every node but the root holds between t-1 and 2t-1 keys, every
\* internal node with k keys has exactly k+1 children, and all leaves are
\* at the same depth.
C3_OccupancyAndShape ==
    /\ \A n \in Nodes(bt.root) :
         /\ n # bt.root => (bt.t - 1 <= Len(n.keys) /\ Len(n.keys) <= 2 * bt.t - 1)
         /\ ~n.leaf => Len(n.children) = Len(n.keys) + 1
    /\ Cardinality(LeafDepths(bt.root, 1)) = 1

\* C3 witness: a delete of a stored key has just run and left a tree of
\* three levels
C3_Witness ==
    /\ last.op = "delete" /\ last.ret
    /\ Height(bt) = 3


RECURSIVE Copies(_, _)
Copies(x, n) == IF n <= 0 THEN <<>> ELSE <<x>> \o Copies(x, n - 1)

\* the entries the calls made so far have left stored with a key in a..b,
\* in ascending key order
RECURSIVE StoredBetween(_, _)
StoredBetween(a, b) ==
    IF a > b THEN <<>>
    ELSE Copies(<<a, MetaOf(a)>>, IF a \in Keys THEN ghost[a] ELSE 0)
         \o StoredBetween(a + 1, b)

\* the bounds a range query is made with: below, among and above the keys
QueryKeys == 0..(MaxKey + 1)

MaxIndexKey == 4   \* distinct filenames offered to the index managers
MaxSizeIndex == 5  \* entries held by each index at once

FilenamesOffered == 1..MaxIndexKey

\* dict.get(key, default)
Get(metadata, key, default) == IF key \in DOMAIN metadata THEN metadata[key] ELSE default

\* FileMetadata.normalize: the required fields and categories are filled in
Normalize(metadata) ==
    LET defaults == [path |-> "", size |-> 0, compression_status |-> FALSE,
                     categories |-> <<>>]
    IN  [f \in DOMAIN metadata \cup DOMAIN defaults |-> Get(metadata, f, defaults[f])]

\* FileIndexManager.search_file: the reshaped record of the node, or None
RBSearchFile(h, filename) ==
    LET node == RBSearch(h, filename)
    IN  IF node # NoneVal
        THEN LET metadata == h.nodes[node].metadata
                 lifted == {"path", "size", "creation_date", "compression_status"}
                 result == [filename |-> Filename(h, node),
                            filepath |-> Get(metadata, "path", ""),
                            size |-> Get(metadata, "size", 0),
                            compression_status |-> Get(metadata, "compression_status", FALSE)]
             IN  [f \in DOMAIN result \cup (DOMAIN metadata \ lifted) |->
                     IF f \in DOMAIN metadata \ lifted THEN metadata[f] ELSE result[f]]
        ELSE None

\* FileIndexBTree.search_file
BTSearchFile(tree, filename) ==
    LET result == BTSearch(tree, filename)
    IN  IF result.node # None
        THEN [filename |-> filename,
              metadata |-> Normalize(At(result.node.values, result.index))]
        ELSE None

\* FileIndexManager.list_all_files
RBListAllFiles(h) == GetAllFiles(h)

\* FileIndexBTree.list_all_files
BTListAllFiles(tree) ==
    LET all_files == GetAll(tree)
    IN  [i \in DOMAIN all_files |->
            [filename |-> all_files[i][1], metadata |-> Normalize(all_files[i][2])]]

InitIndex ==
    /\ HuffIdle
    /\ rb = NewRedBlackTree
    /\ \E min_degree \in 1..MaxT : bt = NewBTree(min_degree) /\ asked = min_degree
    /\ ghost = [k \in FilenamesOffered |-> 0]
    /\ last = NoCall
    /\ removed = FALSE
    /\ created = 0

\* add_file(k, size=...) on both managers; the size tells the entries of a
\* filename apart
AddFile(k) ==
    /\ ghost[k] < MaxDup
    /\ RBLen(rb) < MaxSizeIndex
    /\ LET metadata == MetaOfVersion(k, ghost[k] + 1)
       IN  /\ rb' = Canon(RBInsert(rb, k, metadata))
           /\ bt' = BTInsert(bt, k, metadata)
    /\ ghost' = [ghost EXCEPT ![k] = @ + 1]
    /\ last' = Call("add_file", k, TRUE)
    /\ UNCHANGED <<huffVars, removed, created, asked>>

\* remove_file(k) on both managers
RemoveFile(k) ==
    /\ \E d \in {RBDelete(rb, k)}, e \in {BTDelete(bt, k)} :
           /\ rb' = Canon(d.h)
           /\ bt' = e.tree
           /\ last' = Call("remove_file", k, d.ret /\ e.ret)
    /\ ghost' = [ghost EXCEPT ![k] = Max(0, @ - 1)]
    /\ removed' = TRUE
    /\ UNCHANGED <<huffVars, created, asked>>

NextIndex ==
    \/ \E k \in FilenamesOffered : AddFile(k)
    \/ \E k \in FilenamesOffered : RemoveFile(k)

SpecIndex == InitIndex /\ [][NextIndex]_vars

\* the filenames of a listing, in its order
Filenames(listing) == [i \in DOMAIN listing |-> listing[i].filename]

\* the elements of a sequence
Range(s) == {s[i] : i \in DOMAIN s}

\* C5: when the same (key, metadata) pairs with distinct keys are inserted
\* in the same order into both indexes, search for every inserted key
\* finds that key's original metadata in both trees, and the full listings
\* of both trees contain the identical set of keys.
C5_CrossTreeConsistency ==
    (~removed /\ \A k \in FilenamesOffered : ghost[k] <= 1) =>
        /\ \A k \in FilenamesOffered : ghost[k] = 1 =>
             LET original == MetaOfVersion(k, 1)
                 r == RBSearchFile(rb, k)
                 b == BTSearchFile(bt, k)
             IN  /\ r # None /\ b # None
                 /\ r.filename = k /\ b.filename = k
                 /\ r.filepath = original.path
                 /\ r.size = original.size
                 /\ r.compression_status = original.compression_status
                 /\ r.categories = original.categories
                 /\ b.metadata = original
        /\ Range(Filenames(RBListAllFiles(rb))) = Range(Filenames(BTListAllFiles(bt)))
        /\ Range(Filenames(RBListAllFiles(rb))) = {k \in FilenamesOffered : ghost[k] = 1}

\* C5 witness: only add_file calls were made, of distinct filenames, and
\* enough of them for the B-Tree to have split its root
C5_Witness ==
    /\ ~removed /\ \A k \in FilenamesOffered : ghost[k] <= 1
    /\ last.op = "add_file"
    /\ ~bt.root.leaf
    /\ RBLen(rb) >= 4

\* the number of entries of a listing with filename k
EntriesOf(listing, k) == Cardinality({i \in DOMAIN listing : listing[i].filename = k})

\* C10: in both trees an insert of a key that is present adds a second
\* entry instead of overwriting: after two inserts of k the full listing
\* holds two entries with key k, and after one delete(k) a search for k
\* still finds an entry.
C10_DuplicateKeyInsert ==
    \A k \in FilenamesOffered :
        /\ ghost[k] = 2 =>
             /\ EntriesOf(RBListAllFiles(rb), k) = 2
             /\ EntriesOf(BTListAllFiles(bt), k) = 2
        /\ ghost[k] >= 1 =>
             /\ RBSearchFile(rb, k) # None
             /\ BTSearchFile(bt, k) # None

\* C10 witness: k was stored twice and one remove_file(k) has just run
C10_Witness ==
    /\ last.op = "remove_file" /\ last.ret
    /\ ghost[last.key] = 1
    /\ RBSearchFile(rb, last.key) # None
    /\ BTSearchFile(bt, last.key) # None


(***************************************************************************)
(* Misses, deletes of stored keys and listings on the trees                *)
(***************************************************************************)
\* the keys a call can miss: the ones offered and not stored, one below all
\* the keys offered and one above
MissKeys ==
    {k \in 0..(MaxKey + 1) : k \notin DOMAIN ghost \/ ghost[k] = 0}

\* C11: in every reachable state of either tree, the empty tree included,
\* delete of a key that is not present returns False and search of a key
\* that is not present returns not-found: None for the Red-Black Tree and
\* (None, -1) for the B-Tree.
C11_MissesAreReturnValues ==
    \A k \in MissKeys :
        /\ RBSearch(rb, k) = NoneVal
        /\ RBDelete(rb, k).ret = FALSE
        /\ BTSearch(bt, k) = [node |-> None, index |-> -1]
        /\ BTDelete(bt, k).ret = FALSE

\* C11 witness: a remove_file of a filename that is not stored has just
\* returned False on both indexes, which hold entries, the B-Tree on two
\* levels
C11_Witness ==
    /\ last.op = "remove_file" /\ ~last.ret
    /\ last.key \in MissKeys
    /\ RBLen(rb) >= 4
    /\ ~bt.root.leaf


\* the filenames a Red-Black Tree stores
RBStored(h) == Range(Filenames(GetAllFiles(h)))

\* C12: on a Red-Black Tree that holds n distinct keys, delete(k) with k
\* present returns True, afterwards len is n-1, search(k) is not-found and
\* every other key is still found.
C12_RBDeletePresent ==
    [][(/\ last'.op = "delete"
        /\ Cardinality(RBStored(rb)) = RBLen(rb)
        /\ last'.key \in RBStored(rb))
       => (/\ last'.ret = TRUE
           /\ RBLen(rb') = RBLen(rb) - 1
           /\ RBSearch(rb', last'.key) = NoneVal
           /\ \A j \in RBStored(rb) \ {last'.key} : RBSearch(rb', j) # NoneVal)]_vars

\* C12 witness: a delete of a stored key has just run on a tree of distinct
\* keys and left four of them, which takes a tree of five
C12_Witness ==
    /\ last.op = "delete" /\ last.ret
    /\ RBLen(rb) = 4
    /\ Cardinality(RBStored(rb)) = 4
    /\ \A k \in Keys : ghost[k] <= 1


(***************************************************************************)
(* B-Tree: calls on a BTree that is given distinct keys only               *)
(***************************************************************************)
MaxDistinctKey == 10  \* distinct keys offered to the B-Tree of distinct keys

DistinctKeys == 1..MaxDistinctKey

InitBTDistinct ==
    /\ HuffIdle
    /\ rb = NewRedBlackTree
    /\ \E t \in 1..MaxT : bt = NewBTree(t) /\ asked = t
    /\ ghost = [k \in DistinctKeys |-> 0]
    /\ last = NoCall
    /\ removed = FALSE
    /\ created = 0

\* BTree.insert(k, value) of a key that is not stored
BTInsertNew(k) ==
    /\ ghost[k] = 0
    /\ bt' = BTInsert(bt, k, MetaOf(k))
    /\ ghost' = [ghost EXCEPT ![k] = 1]
    /\ last' = Call("insert", k, TRUE)
    /\ UNCHANGED <<huffVars, rb, removed, created, asked>>

NextBTDistinct ==
    \/ \E k \in DistinctKeys : BTInsertNew(k)
    \/ \E k \in DistinctKeys : BTDeleteCall(k)

SpecBTDistinct == InitBTDistinct /\ [][NextBTDistinct]_vars

\* the keys a B-Tree stores, in the order of its listing
BTKeys(tree) ==
    LET all == GetAll(tree)
    IN  [i \in DOMAIN all |-> all[i][1]]

\* the value search finds with a key, None when it finds none
BTValueOf(tree, key) ==
    LET r == BTSearch(tree, key)
    IN  IF r.node = None THEN None ELSE At(r.node.values, r.index)

\* C13: on a B-Tree that holds distinct keys, delete(k) with k present
\* returns True, afterwards search(k) is not-found, and every other key is
\* still found and still carries the value it was inserted with, whether
\* the deletion replaces k by its predecessor or successor, borrows from a
\* sibling or merges nodes.
C13_BTDeletePresent ==
    [][(/\ last'.op = "delete"
        /\ Cardinality(Range(BTKeys(bt))) = Len(BTKeys(bt))
        /\ last'.key \in Range(BTKeys(bt)))
       => (/\ last'.ret = TRUE
           /\ BTSearch(bt', last'.key) = [node |-> None, index |-> -1]
           /\ \A j \in Range(BTKeys(bt)) \ {last'.key} :
                /\ BTValueOf(bt', j) = MetaOf(j)
                /\ BTValueOf(bt', j) = BTValueOf(bt, j))]_vars

\* C13 witness: a delete of a stored key has just run on a tree of distinct
\* keys that still has three levels
C13_Witness ==
    /\ last.op = "delete" /\ last.ret
    /\ \A k \in DOMAIN ghost : ghost[k] <= 1
    /\ Cardinality(Range(BTKeys(bt))) = Len(BTKeys(bt))
    /\ Height(bt) = 3


(***************************************************************************)
(* Listings: a Red-Black Tree and a B-Tree given the same insert and       *)
(* delete calls, every entry created with a size of its own, so that the   *)
(* entries of one key are told apart in a listing.                         *)
(***************************************************************************)
MaxListKey == 3    \* distinct keys offered to the two listed trees
MaxListDup == 3    \* entries with the same key held by a listed tree at once
MaxCreated == 6    \* entries created in one run of the listed trees

ListKeys == 1..MaxListKey

InitListing ==
    /\ HuffIdle
    /\ rb = NewRedBlackTree
    /\ \E t \in 1..MaxT : bt = NewBTree(t) /\ asked = t
    /\ ghost = [k \in ListKeys |-> 0]
    /\ last = NoCall
    /\ removed = FALSE
    /\ created = 0

\* RedBlackTree.insert(k, size=n) and BTree.insert(k, value) with the same
\* metadata, n the number of the entry
ListInsert(k) ==
    /\ ghost[k] < MaxListDup
    /\ created < MaxCreated
    /\ LET metadata == FileMetadataCreate(created + 1, FALSE, <<>>)
       IN  /\ rb' = Canon(RBInsert(rb, k, metadata))
           /\ bt' = BTInsert(bt, k, metadata)
    /\ created' = created + 1
    /\ ghost' = [ghost EXCEPT ![k] = @ + 1]
    /\ last' = Call("insert", k, TRUE)
    /\ UNCHANGED <<huffVars, removed, asked>>

\* RedBlackTree.delete(k) and BTree.delete(k)
ListDelete(k) ==
    /\ \E d \in {RBDelete(rb, k)}, e \in {BTDelete(bt, k)} :
           /\ rb' = Canon(d.h)
           /\ bt' = e.tree
           /\ last' = Call("delete", k, d.ret /\ e.ret)
    /\ ghost' = [ghost EXCEPT ![k] = Max(0, @ - 1)]
    /\ UNCHANGED <<huffVars, removed, created, asked>>

NextListing ==
    \/ \E k \in ListKeys : ListInsert(k)
    \/ \E k \in ListKeys : ListDelete(k)

SpecListing == InitListing /\ [][NextListing]_vars

\* RedBlackTree.get_all_files as pairs (key, metadata)
RBEntries(h) ==
    LET files == GetAllFiles(h)
    IN  [i \in DOMAIN files |-> <<files[i].filename, files[i].metadata>>]

\* the keys of a listing are in non-decreasing order
Ascending(entries) ==
    \A i \in 1..(Len(entries) - 1) : entries[i][1] <= entries[i + 1][1]

\* no entry is listed twice: every entry was created with its own size
NoneTwice(entries) ==
    \A i \in DOMAIN entries, j \in DOMAIN entries : i # j => entries[i] # entries[j]

\* a listing holds as many entries of each key as the calls left stored
AsManyAsStored(entries) ==
    \A k \in DOMAIN ghost :
        Cardinality({i \in DOMAIN entries : entries[i][1] = k}) = ghost[k]

\* a listing returns every stored entry exactly once, in ascending key order
OrderedListing(entries) ==
    /\ Ascending(entries)
    /\ AsManyAsStored(entries)
    /\ NoneTwice(entries)

\* C14: after any sequence of inserts and deletes, RedBlackTree.get_all_files
\* and BTree.get_all return every stored entry exactly once, in ascending
\* (non-decreasing) key order.
C14_OrderedListing ==
    /\ OrderedListing(RBEntries(rb))
    /\ OrderedListing(GetAll(bt))

\* what holds of the two listings: the one of the Red-Black Tree is as C14
\* says, the one of the B-Tree is in ascending key order with as many
\* entries of each key as are stored
ListingsAsBuilt ==
    /\ OrderedListing(RBEntries(rb))
    /\ Ascending(GetAll(bt))
    /\ AsManyAsStored(GetAll(bt))

\* a delete has just run in a B-Tree whose listing shows one entry twice
ListedTwice ==
    /\ last.op = "delete" /\ last.ret
    /\ ~NoneTwice(GetAll(bt))


(***************************************************************************)
(* Red-Black Tree: partial_search.  The filenames are strings here: the    *)
(* key k of the trees above stands for the string NameOf(k), a sequence of *)
(* code points, and k < j exactly when NameOf(k) < NameOf(j) as Python     *)
(* compares strings.                                                       *)
(***************************************************************************)
\* the code points of "A", "B", "a", "b", in ascending order
Chars == <<65, 66, 97, 98>>

\* the strings of one or two of these characters, in ascending order:
\* "A", "AA", "AB", "Aa", "Ab", "B", "BA", ...
NameAt(n) ==
    LET first == Chars[((n - 1) \div 5) + 1]
        rest == (n - 1) % 5
    IN  IF rest = 0 THEN <<first>> ELSE <<first, Chars[rest]>>

\* the filename key k stands for: "A", "Aa", "BA", "Bb", "aB", "b", "ba"
NameOf(k) == NameAt(3 * k - 2)

\* the strings partial_search is called with: "", and the strings of one or
\* two characters
PartialNames == {<<>>} \cup {NameAt(n) : n \in 1..20}

\* str.lower, on ASCII letters
LowerChar(c) == IF c \in 65..90 THEN c + 32 ELSE c
Lower(s) == [i \in DOMAIN s |-> LowerChar(s[i])]

\* sub in s, on strings
Contains(s, sub) ==
    \E i \in 0..(Len(s) - Len(sub)) : SubSeq(s, i + 1, i + Len(sub)) = sub

\* RedBlackTree._partial_search_helper: the nodes it appends to results
RECURSIVE PartialSearchHelper(_, _, _)
PartialSearchHelper(h, node, partial_name) ==
    IF node = NIL THEN <<>>
    ELSE (IF Contains(Lower(NameOf(Filename(h, node))), partial_name)
          THEN <<node>> ELSE <<>>)
         \o PartialSearchHelper(h, Left(h, node), partial_name)
         \o PartialSearchHelper(h, Right(h, node), partial_name)

\* a partial_search that does not lower the string it is called with
PartialSearchAsGiven(h, partial_name) == PartialSearchHelper(h, h.root, partial_name)

\* RedBlackTree.partial_search
PartialSearch(h, partial_name) == PartialSearchHelper(h, h.root, Lower(partial_name))

\* two characters are the same letter, whatever the case of each
SameLetter(c, d) ==
    \/ c = d
    \/ c \in 65..90 /\ d = c + 32
    \/ d \in 65..90 /\ c = d + 32

\* s contains sub when case is ignored
ContainsIgnoringCase(s, sub) ==
    \E i \in 0..(Len(s) - Len(sub)) :
        \A j \in 1..Len(sub) : SameLetter(s[i + j], sub[j])

\* C15: in any reachable Red-Black Tree, partial_search(s) returns exactly
\* the stored nodes whose key contains s as a substring when both are
\* compared case-insensitively: every matching node once, and no other node.
C15_PartialSearch ==
    \A s \in PartialNames :
        LET results == PartialSearch(rb, s)
        IN  /\ Range(results) =
                  {n \in Reach(rb, rb.root) :
                      ContainsIgnoringCase(NameOf(Filename(rb, n)), s)}
            /\ Cardinality(Range(results)) = Len(results)

\* C15 witness: in a tree of five nodes or more, left by a delete, a search
\* with an upper-case string returns some nodes and not all, one of them
\* for a key that holds the string in another case only
C15_Witness ==
    /\ last.op = "delete" /\ last.ret
    /\ RBLen(rb) >= 5
    /\ \A k \in Keys, j \in Keys : k < j =>
         \E i \in 1..2 : /\ \A m \in 1..(i - 1) : NameOf(k)[m] = NameOf(j)[m]
                         /\ \/ i > Len(NameOf(k)) /\ i <= Len(NameOf(j))
                            \/ /\ i <= Len(NameOf(k)) /\ i <= Len(NameOf(j))
                               /\ NameOf(k)[i] < NameOf(j)[i]
    /\ \E s \in PartialNames :
         LET results == PartialSearch(rb, s)
         IN  /\ \E i \in DOMAIN s : s[i] \in 65..90
             /\ 0 < Len(results) /\ Len(results) < RBLen(rb)
             /\ \E i \in DOMAIN results :
                    ~Contains(NameOf(Filename(rb, results[i])), s)


(***************************************************************************)
(* B-Tree: the minimum degree given to the constructor                     *)
(***************************************************************************)
\* C16: a BTree constructed with a minimum degree t < 2 is clamped to t = 2
\* at construction: the tree's t and its root node's t are both max(2, t),
\* so that no node is ever created with a capacity derived from t < 2.
C16_ClampedDegree ==
    /\ \A t \in (0 - MaxT)..MaxT :
         /\ NewBTree(t).t = (IF t < 2 THEN 2 ELSE t)
         /\ NewBTree(t).root.t = (IF t < 2 THEN 2 ELSE t)
    /\ bt.t = (IF asked < 2 THEN 2 ELSE asked)
    /\ \A n \in Nodes(bt.root) :
         /\ n.t = bt.t
         /\ Len(n.keys) <= 2 * n.t - 1

\* C16 witness: a BTree constructed with t = 1 has split nodes up to three
\* levels, and a delete has merged or borrowed in it
C16_Witness ==
    /\ asked < 2
    /\ last.op = "delete" /\ last.ret
    /\ Height(bt) = 3
    /\ \A n \in Nodes(bt.root) : n.t = 2


(***************************************************************************)
(* Huffman codec: a tree built from a frequency table, as                  *)
(* Encoder.analyze_file and Decoder.decompress build it                    *)
(***************************************************************************)
MaxTableSym == 5   \* symbols of a frequency table
MaxFreq == 6       \* frequency of a symbol in a frequency table

\* the table that gives the i-th symbol, in insertion order, the frequency
\* freqs[i]; symbols are told apart by their number only
AsTable(freqs) == [i \in DOMAIN freqs |-> <<i, freqs[i]>>]

\* {a:4, b:3, c:2, d:5, e:6, f:10}, the symbols a..f numbered 1..6
TestTable == AsTable(<<4, 3, 2, 5, 6, 10>>)

FreqTables == {AsTable(freqs) : freqs \in SeqsUpTo(1..MaxFreq, MaxTableSym)} \cup {TestTable}

InitFreq ==
    /\ text = <<>>
    /\ hpc = "ready"
    /\ encTree = NewHuffmanTree
    /\ decTree = NewHuffmanTree
    /\ \E table \in FreqTables : file = [freq_dict |-> table, bytes |-> <<>>]
    /\ tampered = FALSE
    /\ out = <<>>
    /\ herr = "none"
    /\ TreesIdle

\* HuffmanTree.build_tree_from_freq on a fresh HuffmanTree
BuildFromFreq ==
    /\ hpc = "ready"
    /\ \E built \in {BuildTreeFromFreq(encTree, file.freq_dict)} :
           /\ encTree' = built.tree
           /\ hpc' = IF built.err # "none" THEN "failed" ELSE "built"
           /\ herr' = built.err
    /\ UNCHANGED <<text, decTree, file, tampered, out, rb, bt, ghost, last, removed,
                   created, asked>>

NextFreq == BuildFromFreq

SpecFreq == InitFreq /\ [][NextFreq]_vars

\* the length of the code of a symbol in the code table of a tree
CodeLen(tr, symbol) == Len(DictGet(tr.codes, symbol))

\* C17: in the code table built from any frequency table, whenever symbol a
\* has a strictly lower frequency than symbol b, the code of a is at least
\* as long as the code of b; in particular for {a:4, b:3, c:2, d:5, e:6, f:10}.
C17_OptimalityOrdering ==
    hpc = "built" =>
        \A i \in DOMAIN file.freq_dict, j \in DOMAIN file.freq_dict :
            file.freq_dict[i][2] < file.freq_dict[j][2] =>
                /\ DictHas(encTree.codes, file.freq_dict[i][1])
                /\ DictHas(encTree.codes, file.freq_dict[j][1])
                /\ CodeLen(encTree, file.freq_dict[i][1]) >= CodeLen(encTree, file.freq_dict[j][1])

\* C17 witness: the tree was built from {a:4, b:3, c:2, d:5, e:6, f:10}, and
\* the code of c is longer than the code of f
C17_Witness ==
    /\ hpc = "built"
    /\ file.freq_dict = TestTable
    /\ CodeLen(encTree, 3) > CodeLen(encTree, 6)
    /\ DictGet(encTree.codes, 1) # DictGet(encTree.codes, 6)


\* a node of the Huffman tree without children
IsLeaf(node) == node.kids = <<>>

\* C18: a frequency table with exactly one distinct symbol yields a tree
\* whose root has two leaf children, the real symbol and a placeholder; the
\* symbol receives a code of exactly one bit, and the placeholder receives
\* no entry in the code table or the inverse table.
C18_SingleSymbol ==
    (hpc = "built" /\ Len(file.freq_dict) = 1) =>
        LET symbol == file.freq_dict[1][1]
            root == encTree.root
        IN  /\ root.symbol = <<>>
            /\ Len(root.kids) = 2
            /\ IsLeaf(root.kids[1]) /\ root.kids[1].symbol = <<symbol>>
            /\ IsLeaf(root.kids[2]) /\ root.kids[2].symbol = <<>>
            /\ DictKeys(encTree.codes) = {symbol}
            /\ Len(DictGet(encTree.codes, symbol)) = 1
            /\ Len(encTree.codes) = 1
            /\ encTree.reverse_mapping = << <<DictGet(encTree.codes, symbol), symbol>> >>

\* C18 witness: a tree was built from a table of one symbol that occurs
\* more than once
C18_Witness ==
    /\ hpc = "built"
    /\ Len(file.freq_dict) = 1
    /\ file.freq_dict[1][2] > 1
    /\ DictGet(encTree.codes, file.freq_dict[1][1]) = <<0>>



(***************************************************************************)
(* C19: the size of the payload against the size of the input.            *)
(* Encoder.compress reads the file as bytes, so a file can hold all 256   *)
(* byte values; the codec is run on the small texts and on that file.     *)
(***************************************************************************)
\* the file bytes(range(256)): every byte value once
AllBytes == [i \in 1..256 |-> i - 1]

InitBytes ==
    /\ text \in Texts \cup {AllBytes}
    /\ hpc = "ready"
    /\ encTree = NewHuffmanTree
    /\ decTree = NewHuffmanTree
    /\ file = NoFile
    /\ tampered = FALSE
    /\ out = <<>>
    /\ herr = "none"
    /\ TreesIdle

NextBytes ==
    \/ Compress
    \/ Decompress

SpecBytes == InitBytes /\ [][NextBytes]_vars

\* C19: for every input of n symbols the compressed payload, the bytes after
\* the padding-length byte, is at most 8 * n bits long.
C19_EntropyBound ==
    hpc = "compressed" => Len(PayloadBits(file)) <= 8 * Len(text)

\* What the code does: the payload is the encoded bits and 1..8 padding
\* bits, so it is 8 bits over the bound when every symbol has an 8-bit
\* code, which takes all 256 byte values; with fewer the bound holds.
PayloadAsWritten ==
    hpc = "compressed" =>
        LET encoded == Len(GetEncodedText(encTree, text))
        IN  /\ Len(PayloadBits(file)) = 8 * ((encoded \div 8) + 1)
            /\ encoded <= 8 * Len(text)
            /\ Len(encTree.codes) < 256 => Len(PayloadBits(file)) <= 8 * Len(text)

\* the file of all byte values compressed: 2056 payload bits for 256 bytes
PayloadOverBound ==
    /\ hpc = "compressed"
    /\ text = AllBytes
    /\ Len(PayloadBits(file)) = 2056
    /\ file.bytes[1] = 8



(***************************************************************************)
(* C20: the range scenario on string keys.  A B-Tree of minimum degree 5   *)
(* is loaded with the keys "key_0", "key_1", ... in that order, key_i with *)
(* the value i, and range_search("key_2500", "key_7500") is called.  The   *)
(* tree compares its keys with Python's <, > and <=, which on str is the   *)
(* lexicographic order of the characters.                                  *)
(***************************************************************************)
ScenarioKeys == 10000   \* keys loaded: key_0 .. key_9999
KeyWidth == 5           \* digits a key number is given room for
LoadStep == 50          \* insertions in one step of the loading loop

\* str(n): the decimal digits of n
RECURSIVE DecimalDigits(_)
DecimalDigits(n) == IF n < 10 THEN <<n>> ELSE Append(DecimalDigits(n \div 10), n % 10)

\* Python's a < b on two strings of digits
RECURSIVE StrLt(_, _)
StrLt(a, b) ==
    IF b = <<>> THEN FALSE
    ELSE IF a = <<>> THEN TRUE
    ELSE IF a[1] # b[1] THEN a[1] < b[1]
    ELSE StrLt(Tail(a), Tail(b))

\* The place of a string of digits in the lexicographic order, as a number:
\* each character counts digit + 1 and the end of the string 0, in base 11.
RECURSIVE StrRankFrom(_, _, _)
StrRankFrom(s, j, acc) ==
    IF j > KeyWidth THEN acc
    ELSE StrRankFrom(s, j + 1, 11 * acc + (IF j <= Len(s) THEN s[j] + 1 ELSE 0))

\* a key that compares as the number in it does
KeyNameNumeric(i) == i

\* f"key_{i}" as the tree sees it: all keys share the prefix "key_", so
\* they compare as their digits do
KeyName(i) == StrRankFrom(DecimalDigits(i), 1, 0)

InitScenario ==
    /\ HuffIdle
    /\ rb = NewRedBlackTree
    /\ bt = NewBTree(5)
    /\ asked = 5
    /\ ghost = [k \in Keys |-> 0]
    /\ last = NoCall
    /\ removed = FALSE
    /\ created = 0

\* the loading loop, for i in range(n): tree.insert(f"key_{i}", i), taken
\* LoadStep passes at a time
ScenarioInsert ==
    /\ created < ScenarioKeys
    /\ \E upto \in {Min(created + LoadStep, ScenarioKeys)} :
           /\ bt' = ForEach(LAMBDA tree, i : BTInsert(tree, KeyName(i), i),
                            bt, [j \in 1..(upto - created) |-> created + j - 1],
                            1, upto - created)
           /\ created' = upto
           /\ last' = Call("insert", upto - 1, TRUE)
    /\ UNCHANGED <<huffVars, rb, ghost, removed, asked>>

\* tree.range_search("key_2500", "key_7500") on the loaded tree
ScenarioRangeSearch ==
    /\ created = ScenarioKeys
    /\ last.op # "range_search"
    /\ last' = Call("range_search", 2500, RangeSearch(bt, KeyName(2500), KeyName(7500)))
    /\ UNCHANGED <<huffVars, rb, bt, ghost, removed, created, asked>>

NextScenario ==
    \/ ScenarioInsert
    \/ ScenarioRangeSearch

SpecScenario == InitScenario /\ [][NextScenario]_vars

\* the result is in the order of the keys as strings, none twice
InStringOrder(result) ==
    \A i \in 1..(Len(result) - 1) :
        StrLt(DecimalDigits(result[i][2]), DecimalDigits(result[i + 1][2]))

\* the numbers i whose key "key_i" lies in ["key_2500", "key_7500"]
InScenarioRange ==
    {i \in 0..(ScenarioKeys - 1) :
        /\ ~StrLt(DecimalDigits(i), DecimalDigits(2500))
        /\ ~StrLt(DecimalDigits(7500), DecimalDigits(i))}

\* C20: in a B-Tree with t = 5 holding the keys key_0 .. key_9999,
\* range_search("key_2500", "key_7500") returns exactly 5001 entries in
\* sorted order.
C20_RangeScenario ==
    last.op = "range_search" =>
        /\ Len(last.ret) = 5001
        /\ InStringOrder(last.ret)

\* C20 as the code has it: the keys are strings and compare character by
\* character, so between "key_2500" and "key_7500" lie key_3 .. key_7,
\* key_26 .. key_75, key_251 .. key_750 and key_2500 .. key_7500:
\* 5 + 50 + 500 + 5001 = 5556 entries, returned in the order of the strings.
C20_RangeScenarioStrings ==
    last.op = "range_search" =>
        /\ Len(last.ret) = 5556
        /\ InStringOrder(last.ret)
        /\ {last.ret[i][2] : i \in DOMAIN last.ret} = InScenarioRange
        /\ \A i \in DOMAIN last.ret : last.ret[i][1] = KeyName(last.ret[i][2])

C20_Witness ==
    /\ last.op = "range_search"
    /\ created = ScenarioKeys
    /\ bt.t = 5
    /\ Len(last.ret) > 0
    /\ \E i \in DOMAIN last.ret : last.ret[i][2] = 75



(***************************************************************************)
(* C21: update_file_metadata on both index managers.                       *)
(***************************************************************************)
MaxUpdates == 2    \* update_file_metadata calls in one run
MaxTime == 2       \* readings of the clock, datetime.now()
MaxUpdateKey == 2  \* distinct filenames offered to the managers here

Times == 1..MaxTime
UpdateKeys == 1..MaxUpdateKey

\* the dictionaries offered as new metadata: stored fields, a field the
\* entry does not have yet, and the modification date itself
Updates ==
    {[size |-> 9876, last_modified |-> "2025-05-11"],
     [categories |-> <<"important", "document">>],
     [modified_date |-> 1]}

\* dict.update(new) on a copy of the dictionary
DictUpdate(existing, new) ==
    [f \in DOMAIN existing \cup DOMAIN new |-> IF f \in DOMAIN new THEN new[f] ELSE existing[f]]

\* FileMetadata.update: copy, update, then stamp modified_date with the clock
FileMetadataUpdate(existing_metadata, new_metadata, now) ==
    DictUpdate(DictUpdate(existing_metadata, new_metadata), [modified_date |-> now])

\* RedBlackTree.update_metadata: [h, ret]
RBUpdateMetadata(h, filename, metadata) ==
    LET node == RBSearch(h, filename)
    IN  IF node # NoneVal
        THEN [h |-> [h EXCEPT !.nodes[node].metadata = DictUpdate(@, metadata)], ret |-> TRUE]
        ELSE [h |-> h, ret |-> FALSE]

\* node.values[index] = value for the (node, index) that BTree.search finds
\* below node
RECURSIVE SetFoundValue(_, _, _)
SetFoundValue(node, key, value) ==
    LET i == ScanUp(node.keys, key, 0)
    IN  IF i < Len(node.keys) /\ key = At(node.keys, i)
        THEN [node EXCEPT !.values = ReplaceAt(@, i, value)]
        ELSE IF node.leaf THEN node
        ELSE [node EXCEPT !.children = ReplaceAt(@, i, SetFoundValue(At(@, i), key, value))]

\* FileIndexBTree.update_file_metadata: [tree, ret]
BTUpdateFileMetadata(tree, filename, new_metadata, now) ==
    LET node_result == BTSearch(tree, filename)
    IN  IF node_result.node # None
        THEN [tree |-> [tree EXCEPT !.root = SetFoundValue(@, filename,
                           FileMetadataUpdate(At(node_result.node.values, node_result.index),
                                              new_metadata, now))],
              ret |-> TRUE]
        ELSE [tree |-> tree, ret |-> FALSE]

\* update_file_metadata(k, m) on both managers, the clock reading now
UpdateFileMetadata(k, m, now) ==
    /\ created < MaxUpdates
    /\ \E r \in {RBUpdateMetadata(rb, k, m)}, b \in {BTUpdateFileMetadata(bt, k, m, now)} :
           /\ rb' = r.h
           /\ bt' = b.tree
           /\ last' = [op |-> "update_file_metadata", key |-> k,
                       ret |-> [rb |-> r.ret, bt |-> b.ret], m |-> m]
    /\ created' = created + 1
    /\ UNCHANGED <<huffVars, ghost, removed, asked>>

\* the files are put in place first, then their metadata is updated
NextUpdate ==
    \/ \E k \in UpdateKeys : created = 0 /\ AddFile(k)
    \/ \E k \in UpdateKeys : created = 0 /\ RemoveFile(k)
    \/ \E k \in UpdateKeys, m \in Updates, now \in Times : UpdateFileMetadata(k, m, now)

SpecUpdate == InitIndex /\ [][NextUpdate]_vars

\* a tree with the values taken out: its keys and its structure
RECURSIVE BTShape(_)
BTShape(node) ==
    [leaf |-> node.leaf, keys |-> node.keys,
     children |-> [i \in DOMAIN node.children |-> BTShape(node.children[i])]]

\* two listings that differ at most in the value of one entry with the key
OneEntryChanged(before, after, key) ==
    /\ Len(after) = Len(before)
    /\ \E i \in DOMAIN before :
           /\ before[i][1] = key
           /\ after[i][1] = key
           /\ \A j \in DOMAIN before \ {i} : after[j] = before[j]

\* the Red-Black heap with the metadata of node x taken out
WithoutMetadata(h, x) == [h EXCEPT !.nodes[x].metadata = <<>>]

\* the fields of the reports before and after agree as the claim says: the
\* fields of m are new, the others (modified_date aside) are old; named
\* are the fields m has to be found under
UpdatedAsAsked(before, after, m, named) ==
    /\ \A f \in named : f \in DOMAIN after /\ after[f] = m[f]
    /\ \A f \in DOMAIN before \ (named \cup {"modified_date"}) :
           f \in DOMAIN after /\ after[f] = before[f]
    /\ DOMAIN after \subseteq DOMAIN before \cup named \cup {"modified_date"}

\* the frame of an update call, its results, and the fields outside m
UpdateFrame ==
    last'.op = "update_file_metadata" /\ last' # last =>
        LET k == last'.key
            node == RBSearch(rb, k)
            found == BTSearch(bt, k)
        IN  /\ last'.ret.rb = (node # NoneVal)
            /\ last'.ret.bt = (found.node # None)
            /\ node = NoneVal => rb' = rb
            /\ found.node = None => bt' = bt
            /\ node # NoneVal =>
                 /\ RBSearch(rb', k) = node
                 /\ WithoutMetadata(rb', node) = WithoutMetadata(rb, node)
            /\ found.node # None =>
                 /\ BTShape(bt'.root) = BTShape(bt.root)
                 /\ bt'.t = bt.t
                 /\ OneEntryChanged(GetAll(bt), GetAll(bt'), k)

\* C21: update_file_metadata(k, m) for a present key returns True, after
\* which a search for k reports every field of m with its new value and
\* every field not named in m (other than modified_date) with its old
\* value, while the tree's keys, structure and all other entries are
\* unchanged; for an absent key it returns False and changes nothing.
C21_MetadataUpdate ==
    [][/\ UpdateFrame
       /\ last'.op = "update_file_metadata" /\ last' # last =>
            LET k == last'.key
                m == last'.m
            IN  /\ RBSearch(rb, k) # NoneVal =>
                     UpdatedAsAsked(RBSearchFile(rb, k), RBSearchFile(rb', k), m, DOMAIN m)
                /\ BTSearch(bt, k).node # None =>
                     UpdatedAsAsked(BTSearchFile(bt, k).metadata,
                                    BTSearchFile(bt', k).metadata, m, DOMAIN m)]_vars

\* What the code does: the B-Tree manager stamps modified_date with the
\* clock after it has taken the caller's fields, so a modified_date the
\* caller names is not kept; the Red-Black manager keeps it.  All the rest
\* of the claim holds.
MetadataUpdateAsBuilt ==
    [][/\ UpdateFrame
       /\ last'.op = "update_file_metadata" /\ last' # last =>
            LET k == last'.key
                m == last'.m
            IN  /\ RBSearch(rb, k) # NoneVal =>
                     UpdatedAsAsked(RBSearchFile(rb, k), RBSearchFile(rb', k), m, DOMAIN m)
                /\ BTSearch(bt, k).node # None =>
                     /\ UpdatedAsAsked(BTSearchFile(bt, k).metadata,
                                       BTSearchFile(bt', k).metadata, m,
                                       DOMAIN m \ {"modified_date"})
                     /\ BTSearchFile(bt', k).metadata.modified_date \in Times]_vars

\* a modified_date given by the caller and replaced by the clock's
ModifiedDateOverwritten ==
    /\ last.op = "update_file_metadata"
    /\ last.ret.bt
    /\ "modified_date" \in DOMAIN last.m
    /\ BTSearchFile(bt, last.key).metadata.modified_date # last.m.modified_date
    /\ ~bt.root.leaf



(***************************************************************************)
(* C22: the height of a Red-Black Tree of distinct keys.  The tree starts  *)
(* empty, as in InitBTDistinct, and takes insert calls of new keys only.   *)
(***************************************************************************)
MaxHeightKey == 7  \* distinct filenames offered to the Red-Black Tree here

HeightKeys == 1..MaxHeightKey

\* RedBlackTree.insert(k) of a filename that is not stored
RBInsertNew(k) ==
    /\ ghost[k] = 0
    /\ rb' = Canon(RBInsert(rb, k, MetaOf(k)))
    /\ ghost' = [ghost EXCEPT ![k] = 1]
    /\ last' = Call("insert", k, TRUE)
    /\ UNCHANGED <<huffVars, bt, removed, created, asked>>

NextRBDistinct == \E k \in HeightKeys : RBInsertNew(k)

SpecRBDistinct == InitBTDistinct /\ [][NextRBDistinct]_vars

\* get_tree_height of the unit test: the nodes on the longest path from
\* node down to a leaf, 0 for NIL
RECURSIVE GetTreeHeight(_, _)
GetTreeHeight(h, node) ==
    IF node = NIL THEN 0
    ELSE 1 + Max(GetTreeHeight(h, Left(h, node)), GetTreeHeight(h, Right(h, node)))

\* int.bit_length
RECURSIVE BitLength(_)
BitLength(n) == IF n = 0 THEN 0 ELSE 1 + BitLength(n \div 2)

\* C22: after inserting any n >= 1 distinct keys into the Red-Black Tree,
\* the number of nodes on the longest root-to-leaf path is at most
\* 2 * bit_length(n).
C22_HeightBound ==
    RBLen(rb) >= 1 =>
        GetTreeHeight(rb, rb.root) <= 2 * BitLength(RBLen(rb))

\* C22 witness: seven distinct keys in a tree that is not perfectly
\* balanced (height 4, where 3 would do) and within the bound of 6
C22_Witness ==
    /\ RBLen(rb) = 7
    /\ \A k \in HeightKeys : ghost[k] = 1
    /\ GetTreeHeight(rb, rb.root) = 4



(***************************************************************************)
(* C23: one Encoder and one Decoder used for several files.  Each keeps    *)
(* the HuffmanTree its constructor made (Encoder.__init__,                 *)
(* Decoder.__init__) and builds on it again at every call.                 *)
(***************************************************************************)
MaxFiles == 2      \* files put through the same Encoder and Decoder
MaxNextLen == 3    \* length of the files after the first

\* the next file is taken up: compress and decompress are called again on
\* the same Encoder and Decoder objects
NextFile(t) ==
    /\ hpc = "decompressed"
    /\ created + 1 < MaxFiles
    /\ text' = t
    /\ hpc' = "ready"
    /\ file' = NoFile
    /\ out' = <<>>
    /\ created' = created + 1
    /\ UNCHANGED <<encTree, decTree, tampered, herr, rb, bt, ghost, last, removed, asked>>

NextReuse ==
    \/ Compress
    \/ Decompress
    \/ \E t \in SeqsUpTo(Symbols, MaxNextLen) : NextFile(t)

SpecReuse == InitHuff /\ [][NextReuse]_vars

\* what a Decoder made for this file alone writes
FreshDecoderOutput(f) ==
    DecodeText(BuildTreeFromFreq(NewHuffmanTree, f.freq_dict).tree, StreamAfterPadding(f))

\* the tables of a tree name exactly the symbols of its frequency table
TablesOfCurrentSymbols(tr) ==
    /\ DictKeys(tr.codes) = DictKeys(tr.freq_dict)
    /\ {tr.reverse_mapping[i][2] : i \in DOMAIN tr.reverse_mapping} = DictKeys(tr.freq_dict)
    /\ Len(tr.reverse_mapping) = Len(tr.freq_dict)

\* C23: after build_tree or build_tree_from_freq the code table and the
\* inverse table hold entries for exactly the symbols of the current
\* frequency table, so decompressing a stream with a Decoder that has
\* already decompressed other streams gives the same output as
\* decompressing it with a fresh Decoder.
C23_FreshPerCall ==
    /\ hpc = "compressed" => TablesOfCurrentSymbols(encTree)
    /\ hpc = "decompressed" =>
         /\ TablesOfCurrentSymbols(decTree)
         /\ out = FreshDecoderOutput(file)

\* What the code does: build_tree and build_tree_from_freq add to the
\* tables and never clear them.  The first file of an Encoder or Decoder is
\* handled as the claim says; later the tables still cover the current
\* symbols, with the right codes in the code table, but the inverse table
\* keeps the codes of earlier files.
TablesAccumulate ==
    /\ (created = 0 /\ hpc = "compressed") => TablesOfCurrentSymbols(encTree)
    /\ (created = 0 /\ hpc = "decompressed") =>
         (TablesOfCurrentSymbols(decTree) /\ out = FreshDecoderOutput(file))
    /\ hpc = "decompressed" =>
         /\ DictKeys(decTree.freq_dict) \subseteq DictKeys(decTree.codes)
         /\ \A s \in DictKeys(decTree.freq_dict) :
              DictGet(decTree.codes, s) =
                  DictGet(BuildTreeFromFreq(NewHuffmanTree, file.freq_dict).tree.codes, s)

\* the second file comes out of the used Decoder as another text
StaleCodeDecoded ==
    /\ hpc = "decompressed"
    /\ created = 1
    /\ out # text
    /\ FreshDecoderOutput(file) = text



(***************************************************************************)
(* C24: the same frequency table listed in another order.                  *)
(***************************************************************************)
\* the table with the items at places i and j exchanged: the same symbols
\* with the same counts, listed (or first met in the text) in another order
Exchanged(table, i, j) ==
    [n \in DOMAIN table |-> IF n = i THEN table[j] ELSE IF n = j THEN table[i] ELSE table[n]]

\* the tree built from a table by a new HuffmanTree
BuiltFrom(table) == BuildTreeFromFreq(NewHuffmanTree, table).tree

\* the shape of a tree: its nodes without frequencies and symbols
RECURSIVE Shape(_)
Shape(node) == [i \in DOMAIN node.kids |-> Shape(node.kids[i])]

\* the bits the codes of a tree spend on the text its table counts
EncodedLength(tr) ==
    LET Weighted[n \in 0..Len(tr.freq_dict)] ==
            IF n = 0 THEN 0
            ELSE Weighted[n - 1] + tr.freq_dict[n][2] * CodeLen(tr, tr.freq_dict[n][1])
    IN  Weighted[Len(tr.freq_dict)]

\* C24: two tables with the same symbol-to-count mapping given in different
\* orders produce the same tree shape and the same code length for every
\* symbol.
C24_OrderIndependent ==
    hpc = "built" =>
        \A i \in DOMAIN file.freq_dict, j \in DOMAIN file.freq_dict :
            LET other == BuiltFrom(Exchanged(file.freq_dict, i, j))
            IN  /\ Shape(other.root) = Shape(encTree.root)
                /\ \A s \in DictKeys(file.freq_dict) : CodeLen(other, s) = CodeLen(encTree, s)

\* What the code does: Node.__lt__ compares frequencies only, so among
\* nodes of equal frequency the place in the heap decides, and that follows
\* the order of the table.  The length of the encoded text is the same for
\* every order; the code lengths of single symbols are not.
OrderKeepsEncodedLength ==
    hpc = "built" =>
        \A i \in DOMAIN file.freq_dict, j \in DOMAIN file.freq_dict :
            EncodedLength(BuiltFrom(Exchanged(file.freq_dict, i, j))) = EncodedLength(encTree)

\* {1: 1, 2: 1, 3: 1} and {1: 1, 3: 1, 2: 1}: symbol 3 has a code of one bit
\* in the first tree and of two bits in the second
OrderChangesCodeLength ==
    /\ hpc = "built"
    /\ file.freq_dict = AsTable(<<1, 1, 1>>)
    /\ CodeLen(encTree, 3) = 1
    /\ CodeLen(BuiltFrom(Exchanged(file.freq_dict, 2, 3)), 3) = 2



(***************************************************************************)
(* C25: _split_child on the full children of the reachable trees.          *)
(***************************************************************************)
\* the root BTree.insert puts over a full root before it splits it
NewRootOver(tree) == [BTreeNode(FALSE, tree.t) EXCEPT !.children = <<tree.root>>]

\* the (parent, index) pairs of a tree whose child is full: every internal
\* node with each of its full children, and the new root over a full root
FullChildren(tree) ==
    {<<parent, i>> \in (Nodes(tree.root) \cup {NewRootOver(tree)}) \X (0..(2 * tree.t)) :
        /\ ~parent.leaf
        /\ i < Len(parent.children)
        /\ IsFull(At(parent.children, i))}

\* the split of children[index] as the claim describes it
SplitAsDescribed(t, parent, index) ==
    LET child == At(parent.children, index)
        after == SplitChild(t, parent, index)
        low == At(after.children, index)
        high == At(after.children, index + 1)
    IN  /\ Len(low.keys) = t - 1 /\ Len(high.keys) = t - 1
        /\ Len(low.values) = t - 1 /\ Len(high.values) = t - 1
        /\ At(after.keys, index) = At(child.keys, t - 1)
        /\ At(after.values, index) = At(child.values, t - 1)
        /\ low.keys \o <<At(after.keys, index)>> \o high.keys = child.keys
        /\ low.values \o <<At(after.values, index)>> \o high.values = child.values
        /\ low.leaf = child.leaf /\ high.leaf = child.leaf
        /\ ~child.leaf =>
             /\ Len(low.children) = t /\ Len(high.children) = t
             /\ low.children \o high.children = child.children
        /\ child.leaf => (low.children = <<>> /\ high.children = <<>>)
        /\ RemoveAt(after.keys, index) = parent.keys
        /\ RemoveAt(after.values, index) = parent.values
        /\ RemoveAt(RemoveAt(after.children, index), index) = RemoveAt(parent.children, index)

\* C25: _split_child(parent, i) applied to a full child (2t-1 keys) leaves
\* two nodes of exactly t-1 keys each at parent.children[i] and
\* parent.children[i+1], inserts the child's former middle key and value at
\* parent.keys[i] / parent.values[i], and, when the child is internal, gives
\* each half exactly t of its 2t children; no key or value is lost or
\* duplicated.
C25_SplitChild ==
    \A p \in FullChildren(bt) : SplitAsDescribed(bt.t, p[1], p[2])

\* C25 witness: the tree has three levels, which it reaches only by the
\* split of a full internal root, an insert has just run, and a full leaf
\* waits for the next split
C25_Witness ==
    /\ last.op = "insert"
    /\ Height(bt) = 3
    /\ \E p \in FullChildren(bt) : At(p[1].children, p[2]).leaf



(***************************************************************************)
(* C26: the nodes _insert_non_full is entered on.                          *)
(***************************************************************************)
\* the nodes on which _insert_non_full(node, key, value) and its recursive
\* calls are entered, each as it is at its call
RECURSIVE InsertNonFullEntered(_, _, _)
InsertNonFullEntered(t, node, key) ==
    LET i == ScanDown(node.keys, key, Len(node.keys) - 1)
    IN  IF node.leaf THEN {node}
        ELSE LET full == IsFull(At(node.children, i + 1))
                 split == IF full THEN SplitChild(t, node, i + 1) ELSE node
                 j == IF full /\ key > At(split.keys, i + 1) THEN i + 2 ELSE i + 1
             IN  {node} \cup InsertNonFullEntered(t, At(split.children, j), key)

\* the same for the call BTree.insert(key, value) makes
InsertEntered(tree, key) ==
    InsertNonFullEntered(tree.t,
                         IF IsFull(tree.root) THEN SplitChild(tree.t, NewRootOver(tree), 0)
                         ELSE tree.root,
                         key)

\* C26: in any sequence of B-Tree inserts and deletes, _insert_non_full is
\* never entered on a node that holds 2t-1 keys.
C26_PreemptiveSplit ==
    \A k \in Keys : \A n \in InsertEntered(bt, k) : Len(n.keys) < 2 * bt.t - 1

\* C26 witness: a delete has just run, the root is not full, and the
\* insert of some key meets a full child on its way down and enters one of
\* the halves
C26_Witness ==
    /\ last.op = "delete"
    /\ ~bt.root.leaf
    /\ ~IsFull(bt.root)
    /\ \E k \in Keys : \E n \in InsertEntered(bt, k) : n \notin Nodes(bt.root)



(***************************************************************************)
(* C27: the nodes the recursive _delete is entered on.                     *)
(***************************************************************************)
\* the nodes below the root on which delete(key) enters _delete
DeleteEntered(tree, key) ==
    IF Len(tree.root.keys) = 0 THEN {} ELSE Delete(tree.t, tree.root, key).entered

\* C27: in any sequence of B-Tree inserts and deletes, the recursive _delete
\* is entered on a non-root node only when that node holds at least t keys.
C27_DeleteDescent ==
    \A k \in 0..(MaxKey + 1) : \A n \in DeleteEntered(bt, k) : Len(n.keys) >= bt.t

\* C27 witness: in a tree of three levels, the delete of some key enters a
\* node that is not a node of the tree as it stands, a child that borrowed
\* or was merged before the descent, and an internal one
C27_Witness ==
    /\ Height(bt) = 3
    /\ \E k \in Keys : \E n \in DeleteEntered(bt, k) : n \notin Nodes(bt.root) /\ ~n.leaf



(***************************************************************************)
(* C28: the order of the keys in the nodes of the B-Tree.                  *)
(***************************************************************************)
\* the keys stored in the subtree of node
SubtreeKeys(node) == {At(n.keys, i) : <<n, i>> \in {<<n, i>> \in Nodes(node) \X (0..(2 * MaxT)) : i < Len(n.keys)}}

\* the keys of node are strictly increasing
StrictlyIncreasing(node) ==
    \A i \in 0..(Len(node.keys) - 2) : At(node.keys, i) < At(node.keys, i + 1)

\* the keys of node never decrease
NonDecreasing(node) ==
    \A i \in 0..(Len(node.keys) - 2) : At(node.keys, i) <= At(node.keys, i + 1)

\* every key below children[i] is between keys[i-1] and keys[i], the bounds
\* included
ChildrenBetween(node) ==
    node.leaf \/
    \A i \in 0..(Len(node.children) - 1) : \A k \in SubtreeKeys(At(node.children, i)) :
        /\ i > 0 => At(node.keys, i - 1) <= k
        /\ i < Len(node.keys) => k <= At(node.keys, i)

\* C28: after any sequence of inserts and deletes, the keys within every node
\* are strictly increasing and every key stored in children[i] of an internal
\* node lies between keys[i-1] and keys[i] of that node.
C28_KeyOrdering ==
    \A n \in Nodes(bt.root) : StrictlyIncreasing(n) /\ ChildrenBetween(n)

\* C28 as the code has it: a key inserted twice is stored twice, so the keys
\* within every node never decrease, and are strictly increasing as long as
\* no key is stored twice; the keys below children[i] lie between keys[i-1]
\* and keys[i], the bounds included.
KeyOrderingWithDuplicates ==
    \A n \in Nodes(bt.root) :
        /\ NonDecreasing(n)
        /\ ChildrenBetween(n)
        /\ (\A k \in Keys : Cardinality({j \in 1..Len(GetAll(bt)) : GetAll(bt)[j][1] = k}) <= 1)
              => StrictlyIncreasing(n)

\* a delete has run on a tree of three levels that holds a key twice in one
\* node and, elsewhere, a key of a child equal to the key above it
EqualKeysInNode ==
    /\ last.op = "delete"
    /\ ~bt.root.leaf
    /\ \E n \in Nodes(bt.root) : ~StrictlyIncreasing(n)
    /\ \E n \in Nodes(bt.root) : ~n.leaf /\ \E i \in 0..(Len(n.keys) - 1) :
           At(n.keys, i) \in SubtreeKeys(At(n.children, i))



(***************************************************************************)
(* C29: the loop of _fix_insert, one iteration at a time.                  *)
(***************************************************************************)
\* the guard of the while loop of _fix_insert
FixInsertGuard(h, k) == k # h.root /\ Color(h, Parent(h, k)) = RED

\* one iteration of the loop of _fix_insert: the heap and the cursor after
\* it, the case it took, and the rotations it made
FixInsertStep(h, k) ==
    LET right_side == Parent(h, k) = Right(h, Parent(h, Parent(h, k)))
        u == IF right_side THEN Left(h, Parent(h, Parent(h, k)))
             ELSE Right(h, Parent(h, Parent(h, k)))
    IN  IF Color(h, u) = RED
        THEN [h |-> RecolorUncleRed(h, k, u), k |-> Parent(h, Parent(h, k)),
              uncle |-> RED, rotations |-> 0]
        ELSE LET inner == IF right_side THEN k = Left(h, Parent(h, k))
                          ELSE k = Right(h, Parent(h, k))
                 k2 == IF inner THEN Parent(h, k) ELSE k
             IN  Bind(IF ~inner THEN h
                      ELSE IF right_side THEN RightRotate(h, k2) ELSE LeftRotate(h, k2), LAMBDA h2 :
                 Bind(RecolorUncleBlack(h2, k2), LAMBDA h3 :
                 [h |-> IF right_side THEN LeftRotate(h3, Parent(h3, Parent(h3, k2)))
                        ELSE RightRotate(h3, Parent(h3, Parent(h3, k2))),
                  k |-> k2, uncle |-> BLACK,
                  rotations |-> IF inner THEN 2 ELSE 1]))

\* the iterations of _fix_insert(k), in order
RECURSIVE FixInsertSteps(_, _)
FixInsertSteps(h, k) ==
    IF FixInsertGuard(h, k)
    THEN Bind(FixInsertStep(h, k), LAMBDA s : <<s>> \o FixInsertSteps(s.h, s.k))
    ELSE <<>>

\* RedBlackTree.insert up to its call of _fix_insert: the heap with the new
\* node n hung under the node the descent ended at
HangNode(h, n, filename, metadata) ==
    Bind(InsertDescent(h, h.root, NIL, filename), LAMBDA y :
    LET new_node == [filename |-> filename, metadata |-> metadata, color |-> RED,
                     left |-> NIL, right |-> NIL, parent |-> y]
    IN  Bind([h EXCEPT !.nodes = (n :> new_node) @@ h.nodes], LAMBDA h1 :
        IF y = NIL THEN SetRoot(h1, n)
        ELSE IF filename < Filename(h1, y) THEN SetLeft(h1, y, n)
        ELSE SetRight(h1, y, n)))

\* the links from x up to the root
RECURSIVE DepthOf(_, _)
DepthOf(h, x) == IF x = h.root THEN 0 ELSE 1 + DepthOf(h, Parent(h, x))

RECURSIVE SumRotations(_)
SumRotations(steps) ==
    IF steps = <<>> THEN 0 ELSE Head(steps).rotations + SumRotations(Tail(steps))

\* the fixup of insert(k) on heap h0: its iterations are those of the loop,
\* an uncle-is-RED iteration rotates nothing and moves the cursor two levels
\* up, an uncle-is-BLACK iteration is the last one, and the rotations of all
\* iterations together are at most two
FixupAsDescribed(h0, k) ==
    LET n == Fresh(h0)
        hung == HangNode(h0, n, k, MetaOf(k))
        steps == FixInsertSteps(hung, n)
        before(i) == IF i = 1 THEN [h |-> hung, k |-> n] ELSE steps[i - 1]
        final == before(Len(steps) + 1)
    IN  /\ SetColor(final.h, final.h.root, BLACK) = RBInsert(h0, k, MetaOf(k))
        /\ 2 * Len(steps) <= DepthOf(hung, n) + 2
        /\ \A i \in 1..Len(steps) :
              /\ steps[i].uncle = RED =>
                    /\ steps[i].rotations = 0
                    /\ DepthOf(steps[i].h, steps[i].k) = DepthOf(before(i).h, before(i).k) - 2
                    /\ steps[i].k = Parent(before(i).h, Parent(before(i).h, before(i).k))
              /\ steps[i].uncle = BLACK =>
                    /\ i = Len(steps)
                    /\ steps[i].rotations \in {1, 2}
        /\ SumRotations(steps) <= 2

\* C29: the loop of _fix_insert terminates: the uncle-is-RED case only moves
\* the cursor two levels towards the root, and once the uncle-is-BLACK case
\* has run the loop exits, so a single insert performs at most two rotations.
C29_FixupTerminates == \A k \in Keys : FixupAsDescribed(rb, k)

\* C29 witness: after a delete, a tree on which the insert of some key runs
\* the uncle-is-RED case and then the uncle-is-BLACK case with two rotations
C29_Witness ==
    /\ last.op = "delete"
    /\ \E k \in Keys :
          LET steps == FixInsertSteps(HangNode(rb, Fresh(rb), k, MetaOf(k)), Fresh(rb))
          IN  /\ Len(steps) = 2
              /\ steps[1].uncle = RED
              /\ steps[2].uncle = BLACK
              /\ steps[2].rotations = 2



(***************************************************************************)
(* C30: delete of a key that is not stored.                                *)
(***************************************************************************)
\* the occupancy and the shape of a B-Tree: the keys of every node but the
\* root number t-1 to 2t-1, an internal node has a child more than keys, and
\* the leaves are at one depth
OccupancyAndShape(tree) ==
    /\ \A n \in Nodes(tree.root) :
         /\ n # tree.root => (tree.t - 1 <= Len(n.keys) /\ Len(n.keys) <= 2 * tree.t - 1)
         /\ ~n.leaf => Len(n.children) = Len(n.keys) + 1
    /\ Cardinality(LeafDepths(tree.root, 1)) = 1

\* C30: for a key k that is not stored, the full listing of either tree (keys
\* and their values, in order) is the same before and after delete(k), also
\* where the descent of the B-Tree borrows or merges before it finds that k
\* is missing, and the occupancy and shape of the B-Tree hold afterwards.
C30_AbsentDeleteKeepsContents ==
    \A k \in MissKeys :
        /\ GetAllFiles(RBDelete(rb, k).h) = GetAllFiles(rb)
        /\ GetAll(BTDelete(bt, k).tree) = GetAll(bt)
        /\ OccupancyAndShape(BTDelete(bt, k).tree)

\* C30 witness: a delete of a key that is not stored has just run, and the
\* delete of another such key borrows or merges in the B-Tree on its way down
C30_Witness ==
    /\ last.op = "delete" /\ ~last.ret
    /\ GetAll(bt) # <<>>
    /\ \E k \in MissKeys : BTDelete(bt, k).tree # bt

====
